---- MODULE Spec2Model ----
(***************************************************************************)
(* TFBSpedia query resolution and batch search engine (home/views.py).     *)
(*                                                                         *)
(* Strings are sequences of one-character strings.  The character BOM      *)
(* stands for U+FEFF, LF for the line feed.                                *)
(***************************************************************************)
EXTENDS Integers, Sequences, FiniteSets, TLC

VARIABLES
    TFBS_position,         \* store: position table, in heap (iteration) order
    TFBS_name,             \* store: name table rows
    tfbs_name_counts,      \* store: precomputed per-term aggregate rows
    cell_line_files,       \* staticfiles/documents/cell_lines_ID_<species>/<tissue>.csv
    tf_count_files,        \* cell_line_TF_count_<species>.csv and .pkl
    _cell_line_ids_cache,  \* module-level cache (species, cell_tissue) -> ids
    _tf_count_cache,       \* module-level cache species -> mapping
    session,               \* request.session['batch_file_content']
    request,               \* the last request handled
    response,              \* what the handler returned for it
    settings,              \* settings.DEBUG; scan: the order in which the store
                           \* visits the position rows, when it is a fixed one
    previous,              \* history: the request answered before, and its answer
    threads                \* request threads inside a cache function

vars == << TFBS_position, TFBS_name, tfbs_name_counts, cell_line_files,
           tf_count_files, _cell_line_ids_cache, _tf_count_cache,
           session, request, response, settings, previous, threads >>

storeVars == << TFBS_position, TFBS_name, tfbs_name_counts >>
fileVars  == << cell_line_files, tf_count_files >>
cacheVars == << _cell_line_ids_cache, _tf_count_cache >>
auxVars   == << settings, previous, threads >>

(***************************************************************************)
(* Bounds of the model.                                                    *)
(***************************************************************************)
MaxTail == 6          \* characters following the head of a classifier input
MaxLineLen == 1       \* characters of an enumerated line of a batch file
MaxLines == 2         \* lines of a batch file
MaxCsvRows == 2       \* rows of a cell_line_TF_count CSV file

(***************************************************************************)
(* Characters and Python's str / int primitives.                           *)
(***************************************************************************)
LF  == "\n"
BOM == "BOM"

DigitChars == {"0", "1", "2", "3", "4", "5", "6", "7", "8", "9"}
Whitespace == {" ", LF}

IsDigit(c) == c \in DigitChars

DigitVal(c) ==
    CASE c = "0" -> 0 [] c = "1" -> 1 [] c = "2" -> 2 [] c = "3" -> 3
      [] c = "4" -> 4 [] c = "5" -> 5 [] c = "6" -> 6 [] c = "7" -> 7
      [] c = "8" -> 8 [] c = "9" -> 9

Tail0(s) == IF Len(s) = 0 THEN s ELSE SubSeq(s, 2, Len(s))
Front0(s) == IF Len(s) = 0 THEN s ELSE SubSeq(s, 1, Len(s) - 1)

\* str.lstrip() / str.rstrip() / str.strip(): whitespace only (U+FEFF is not
\* whitespace for Python).
RECURSIVE LStrip(_)
LStrip(s) == IF Len(s) > 0 /\ s[1] \in Whitespace THEN LStrip(Tail0(s)) ELSE s

RECURSIVE RStrip(_)
RStrip(s) == IF Len(s) > 0 /\ s[Len(s)] \in Whitespace THEN RStrip(Front0(s)) ELSE s

Strip(s) == RStrip(LStrip(s))

\* str.rstrip(','): every trailing comma.
RECURSIVE RStripCommas(_)
RStripCommas(s) ==
    IF Len(s) > 0 /\ s[Len(s)] = "," THEN RStripCommas(Front0(s)) ELSE s

StartsWith(s, c) == Len(s) > 0 /\ s[1] = c

Contains(s, c) == \E i \in 1..Len(s) : s[i] = c

\* The fields of a string, given the fields of its two halves: the last
\* field of the left half goes on in the first field of the right half.
JoinFields(left, right) ==
    Front0(left) \o << left[Len(left)] \o right[1] >> \o Tail0(right)

\* str.split(sep) for a one-character separator, of s[lo..hi]: always at
\* least one field.  The string is halved so that long uploads can be split.
RECURSIVE SplitRange(_, _, _, _)
SplitRange(s, sep, lo, hi) ==
    IF lo > hi THEN << << >> >>
    ELSE IF lo = hi
    THEN IF s[lo] = sep THEN << << >>, << >> >> ELSE << << s[lo] >> >>
    ELSE JoinFields(SplitRange(s, sep, lo, (lo + hi) \div 2),
                    SplitRange(s, sep, (lo + hi) \div 2 + 1, hi))

Split(s, sep) == SplitRange(s, sep, 1, Len(s))

\* The value of a string of decimal digits.
RECURSIVE DecimalValue(_, _)
DecimalValue(s, acc) ==
    IF Len(s) = 0 THEN acc ELSE DecimalValue(Tail0(s), 10 * acc + DigitVal(s[1]))

\* int(s): surrounding whitespace is ignored; anything but a non-empty run
\* of digits raises ValueError.  << >> is the failure, << n >> the value.
PyInt(s) ==
    LET t == Strip(s)
    IN IF Len(t) > 0 /\ \A i \in 1..Len(t) : IsDigit(t[i])
       THEN << DecimalValue(t, 0) >>
       ELSE << >>

(***************************************************************************)
(* Query classifier: is_genomic_location, parse_genomic_location.          *)
(***************************************************************************)
None == << >>          \* Python's None for an optional integer
Some(n) == << n >>

\* Index just after the maximal run of digits of s starting at i (\d+ is
\* greedy and is followed by a non-digit in both patterns).
RECURSIVE DigitsEnd(_, _)
DigitsEnd(s, i) ==
    IF i <= Len(s) /\ IsDigit(s[i]) THEN DigitsEnd(s, i + 1) ELSE i

\* '$' of re.match without MULTILINE: the end of the string, or just before
\* a line feed that ends the string.
AtDollar(s, i) == i = Len(s) + 1 \/ (i = Len(s) /\ s[i] = LF)

HasChrPrefix(s) == Len(s) >= 3 /\ s[1] = "c" /\ s[2] = "h" /\ s[3] = "r"

\* re.match(r'^chr\d+,\d+,\d+$', s)
MatchRegion(s) ==
    /\ HasChrPrefix(s)
    /\ LET j1 == DigitsEnd(s, 4)
       IN /\ j1 > 4
          /\ j1 <= Len(s) /\ s[j1] = ","
          /\ LET j2 == DigitsEnd(s, j1 + 1)
             IN /\ j2 > j1 + 1
                /\ j2 <= Len(s) /\ s[j2] = ","
                /\ LET j3 == DigitsEnd(s, j2 + 1)
                   IN j3 > j2 + 1 /\ AtDollar(s, j3)

\* re.match(r'^chr\d+$', s)
MatchChrOnly(s) ==
    /\ HasChrPrefix(s)
    /\ LET j1 == DigitsEnd(s, 4) IN j1 > 4 /\ AtDollar(s, j1)

\* Mutant: the patterns lose their '$' anchor.
is_genomic_location_unanchored(q) ==
    HasChrPrefix(q) /\ DigitsEnd(q, 4) > 4

\* Mutant: the region pattern accepts two numeric fields.
is_genomic_location_two_fields(q) ==
    \/ MatchRegion(q)
    \/ MatchChrOnly(q)
    \/ /\ HasChrPrefix(q)
       /\ LET j1 == DigitsEnd(q, 4)
          IN /\ j1 > 4 /\ j1 <= Len(q) /\ q[j1] = ","
             /\ LET j2 == DigitsEnd(q, j1 + 1)
                IN j2 > j1 + 1 /\ AtDollar(q, j2)

is_genomic_location(q) == MatchRegion(q) \/ MatchChrOnly(q)

\* Returns [raised, chromosome, start, end]; raised is "" on a normal return,
\* else the exception (parts[1] / parts[2] out of range, or int() failing).
parse_genomic_location(q) ==
    IF Contains(q, ",")
    THEN LET parts == Split(q, ",")
         IN IF Len(parts) < 3
            THEN [raised |-> "IndexError", chromosome |-> << >>,
                  start |-> None, end |-> None]
            ELSE IF PyInt(parts[2]) = << >> \/ PyInt(parts[3]) = << >>
            THEN [raised |-> "ValueError", chromosome |-> << >>,
                  start |-> None, end |-> None]
            ELSE [raised |-> "", chromosome |-> parts[1],
                  start |-> PyInt(parts[2]), end |-> PyInt(parts[3])]
    ELSE [raised |-> "", chromosome |-> q, start |-> None, end |-> None]

\* The branch of TFBSViewSet.list (and of the batch handlers) that turns a raw
\* query into a location search or a name search.
ClassifyQuery(q) ==
    IF is_genomic_location(q)
    THEN LET p == parse_genomic_location(q)
         IN [kind |-> "location", raised |-> p.raised,
             chromosome |-> p.chromosome, start |-> p.start, end |-> p.end,
             term |-> << >>]
    ELSE [kind |-> "name", raised |-> "", chromosome |-> << >>,
          start |-> None, end |-> None, term |-> q]

(***************************************************************************)
(* Specification of the classifier alone: every input string is handed to  *)
(* the classification step.                                                *)
(***************************************************************************)
Heads == { << >>, << "c", "h", "r" >>, << "c", "h", "X" >> }
TailChars == {"1", "2", ",", "X", LF}

TailsOfLen(n) == [1..n -> TailChars]
Tails == UNION { TailsOfLen(n) : n \in 0..MaxTail }

ClassifyInputs == { h \o t : h \in Heads, t \in Tails }

NoRequest == [op |-> "none"]
NoResponse == [op |-> "none"]

EmptyStore ==
    /\ TFBS_position = << >>
    /\ TFBS_name = << >>
    /\ tfbs_name_counts = << >>

EmptyFiles ==
    /\ cell_line_files = << >>
    /\ tf_count_files = << >>

EmptyCaches ==
    /\ _cell_line_ids_cache = << >>
    /\ _tf_count_cache = << >>

\* settings.py as deployed (DEBUG off); the store visits rows in any order.
DefaultSettings == [DEBUG |-> FALSE, scan |-> None]

NoPrevious == [request |-> NoRequest, response |-> NoResponse, first |-> FALSE]
NoThreads == << >>

\* No history is kept and no thread is inside a cache function.
Untracked == previous = NoPrevious /\ threads = NoThreads

InitClassify ==
    /\ EmptyStore /\ EmptyFiles /\ EmptyCaches
    /\ settings = DefaultSettings /\ Untracked
    /\ session = << >>
    /\ request = NoRequest
    /\ response = NoResponse

Classify ==
    /\ request.op = "none"
    /\ \E q \in ClassifyInputs :
        /\ request' = [op |-> "classify", query |-> q]
        /\ response' = [op |-> "classify", classified |-> ClassifyQuery(q)]
        /\ UNCHANGED << storeVars, fileVars, cacheVars, session, auxVars >>

NextClassify == Classify

SpecClassify == InitClassify /\ [][NextClassify]_vars

(***************************************************************************)
(* Batch parser: parse_batch_file.                                         *)
(***************************************************************************)
\* file_content[1:] when the content starts with the byte-order mark.
StripLeadingBom(s) == IF StartsWith(s, BOM) THEN Tail0(s) ELSE s

\* Mutant: the CSV branch keeps the last field instead of the first.
CsvFirstField_last(clean_line) ==
    LET parts == Split(clean_line, ",") IN Strip(parts[Len(parts)])

\* parts[0].strip() of the CSV branch.
CsvFirstField(clean_line) == Strip(Split(clean_line, ",")[1])

\* Mutant: trailing commas are left on the line.
CleanLine_keeps_commas(line) ==
    IF StartsWith(Strip(line), BOM) THEN Strip(Tail0(Strip(line))) ELSE Strip(line)

\* clean_line of a line that passed the skip test: trimmed again, one
\* leading byte-order mark removed, trailing commas removed.
CleanLine(line) ==
    LET c0 == Strip(line)
        c1 == IF StartsWith(c0, BOM) THEN Strip(Tail0(c0)) ELSE c0
    IN RStripCommas(c1)

\* The body of the loop for one raw line: the queries it appends (none or
\* one).  The skip test runs on the trimmed line, before the line's own
\* byte-order mark is looked at.
LineQueries(raw) ==
    LET line == Strip(raw)
    IN IF Len(line) = 0 \/ StartsWith(line, "#") THEN << >>
       ELSE LET clean_line == CleanLine(line)
            IN IF Len(clean_line) = 0 THEN << >>
               ELSE IF is_genomic_location(clean_line) THEN << clean_line >>
               ELSE IF Contains(clean_line, ",")
                    THEN IF Len(CsvFirstField(clean_line)) > 0
                         THEN << CsvFirstField(clean_line) >>
                         ELSE << >>
               ELSE << clean_line >>

\* The loop over the lines lo..hi: the queries appended, in line order (the
\* range is halved so that long uploads can be parsed).
RECURSIVE ParseLines(_, _, _)
ParseLines(lines, lo, hi) ==
    IF lo > hi THEN << >>
    ELSE IF lo = hi THEN LineQueries(lines[lo])
    ELSE ParseLines(lines, lo, (lo + hi) \div 2)
         \o ParseLines(lines, (lo + hi) \div 2 + 1, hi)

\* file_content.strip().split('\n') after the leading byte-order mark is cut.
ContentLines(file_content) == Split(Strip(StripLeadingBom(file_content)), LF)

QueriesOfLines(lines) == ParseLines(lines, 1, Len(lines))

parse_batch_file(file_content) == QueriesOfLines(ContentLines(file_content))

(***************************************************************************)
(* Specification of the batch parser alone: an uploaded text is parsed.    *)
(***************************************************************************)
LineChars == {BOM, "#", ",", "A"}

ShortLines == UNION { [1..n -> LineChars] : n \in 0..MaxLineLen }

SampleLines ==
    { << "c", "h", "r", "2", ",", "1", ",", "2", "," >>,
      << "c", "h", "r", "2" >>,
      << "c", "h", "r", "X", ",", "5", "," >>,
      << "A", ",", "B", ",", "C" >>,
      << " ", "A", " ", ",", "B" >>,
      << " ", ",", "B" >>,
      << "A", " ", "," >>,
      << " ", BOM, " ", "#", "A" >>,
      << BOM, "#" >>,
      << BOM, "A" >>,
      << "#", "A" >>,
      << ",", "A" >> }

BatchLines == ShortLines \cup SampleLines

RECURSIVE JoinLines(_)
JoinLines(ls) ==
    IF Len(ls) = 0 THEN << >>
    ELSE IF Len(ls) = 1 THEN ls[1]
    ELSE ls[1] \o << LF >> \o JoinLines(Tail0(ls))

BatchContents ==
    { JoinLines(ls) : ls \in UNION { [1..n -> BatchLines] : n \in 1..MaxLines } }

InitParse ==
    /\ EmptyStore /\ EmptyFiles /\ EmptyCaches
    /\ settings = DefaultSettings /\ Untracked
    /\ session = << >>
    /\ request = NoRequest
    /\ response = NoResponse

ParseBatch ==
    /\ request.op = "none"
    /\ \E c \in BatchContents :
        /\ request' = [op |-> "parse", content |-> c]
        /\ response' = [op |-> "parse", queries |-> parse_batch_file(c)]
        /\ UNCHANGED << storeVars, fileVars, cacheVars, session, auxVars >>

NextParse == ParseBatch

SpecParse == InitParse /\ [][NextParse]_vars

(***************************************************************************)
(* The store, as the handlers' SQL uses it.  A table is the sequence of    *)
(* its rows in the store's (stable) iteration order.                       *)
(***************************************************************************)
Chr1 == << "c", "h", "r", "1" >>
Chr2 == << "c", "h", "r", "2" >>
TermX == << "X" >>
TermY == << "Y" >>

Range(f) == { f[i] : i \in DOMAIN f }

Min(a, b) == IF a <= b THEN a ELSE b

\* cursor.fetchall() of a statement ending in OFFSET %s LIMIT %s.
OffsetLimit(rows, offset, limit) ==
    SubSeq(rows, offset + 1, Min(Len(rows), offset + limit))

\* ORDER BY "start": rows of equal start stay in iteration order.
RECURSIVE InsertByStart(_, _)
InsertByStart(sorted, row) ==
    IF Len(sorted) = 0 THEN << row >>
    ELSE IF sorted[Len(sorted)].start <= row.start THEN Append(sorted, row)
    ELSE Append(InsertByStart(Front0(sorted), row), sorted[Len(sorted)])

RECURSIVE OrderByStart(_)
OrderByStart(rows) ==
    IF Len(rows) = 0 THEN << >>
    ELSE InsertByStart(OrderByStart(Front0(rows)), rows[Len(rows)])

\* allowed_ids: None (no filter requested) or the list of ids of the tissue.
NoFilter == [filter |-> FALSE, ids |-> << >>]
AllowOnly(ids) == [filter |-> TRUE, ids |-> ids]

\* "ID" = ANY(%s)
IdAllowed(id, allowed_ids) == allowed_ids.filter => id \in Range(allowed_ids.ids)

\* Mutant: the region statement loses its "end" <= %s condition.
LocationWhere_no_end(p, chromosome, start, end, allowed_ids) ==
    /\ p.seqnames = chromosome
    /\ (start # None /\ end # None) => p.start >= start[1]
    /\ IdAllowed(p.ID, allowed_ids)

\* Mutant: the region statement selects what overlaps the region.
LocationWhere_overlap(p, chromosome, start, end, allowed_ids) ==
    /\ p.seqnames = chromosome
    /\ (start # None /\ end # None) => (p.start <= end[1] /\ p.end >= start[1])
    /\ IdAllowed(p.ID, allowed_ids)

\* WHERE of the location statements: "seqnames" = %s, for a region also
\* "start" >= %s AND "end" <= %s, with a tissue also "ID" = ANY(%s).
LocationWhere(p, chromosome, start, end, allowed_ids) ==
    /\ p.seqnames = chromosome
    /\ (start # None /\ end # None) => (p.start >= start[1] /\ p.end <= end[1])
    /\ IdAllowed(p.ID, allowed_ids)

\* SELECT COUNT(*) FROM "TFBS_position" WHERE ...
LocationCount(table, chromosome, start, end, allowed_ids) ==
    Cardinality({ i \in DOMAIN table :
                    LocationWhere(table[i], chromosome, start, end, allowed_ids) })

\* SELECT "ID", "seqnames", "start", "end" FROM "TFBS_position" WHERE ...
\* ORDER BY "start"
LocationSelect(table, chromosome, start, end, allowed_ids) ==
    OrderByStart(SelectSeq(table,
        LAMBDA p : LocationWhere(p, chromosome, start, end, allowed_ids)))

\* Mutant: the duplicate filter is skipped.
DedupByCoordinate_off(raw_results) == raw_results

\* The closing loop of every search function: the first row of each
\* (seqnames, start, end) is kept.
RECURSIVE DedupByCoordinate(_)
DedupByCoordinate(raw_results) ==
    IF Len(raw_results) = 0 THEN << >>
    ELSE LET results == DedupByCoordinate(Front0(raw_results))
             row == raw_results[Len(raw_results)]
         IN IF \E k \in 1..Len(results) :
                   /\ results[k].seqnames = row.seqnames
                   /\ results[k].start = row.start
                   /\ results[k].end = row.end
            THEN results
            ELSE Append(results, row)

(***************************************************************************)
(* Allow-list cache: load_cell_line_ids.                                   *)
(***************************************************************************)
\* The ids of the rows whose ID column is an integer, in file order.
RECURSIVE ReadIds(_)
ReadIds(rows) ==
    IF Len(rows) = 0 THEN << >>
    ELSE LET n == PyInt(Strip(rows[Len(rows)]))
         IN ReadIds(Front0(rows)) \o n

\* cache with cache[key] = value.
Put(cache, key, value) ==
    [k \in DOMAIN cache \cup {key} |-> IF k = key THEN value ELSE cache[k]]

\* Mutant: the entry is stored before the file is read, so it stays empty.
load_cell_line_ids_miss_stores_early(cache, files, species, cell_tissue) ==
    LET cache_key == << species, cell_tissue >>
        file == files[cache_key]
        read == cell_tissue # "" /\ file.exists
    IN [ids |-> IF read THEN ReadIds(file.rows) ELSE << >>,
        cache |-> Put(cache, cache_key, << >>), read |-> read, raised |-> FALSE]

\* load_cell_line_ids past the cache test: the file, if any, is read and the
\* list is stored under the key.  open() and the decoding of the lines stand
\* under no try: with a file that cannot be read the exception leaves the
\* function (raised) before anything is stored.
load_cell_line_ids_miss(cache, files, species, cell_tissue) ==
    LET cache_key == << species, cell_tissue >>
        file == files[cache_key]
        read == cell_tissue # "" /\ file.exists
        ids == IF read THEN ReadIds(file.rows) ELSE << >>
    IN IF read /\ ~file.readable
       THEN [ids |-> << >>, cache |-> cache, read |-> TRUE, raised |-> TRUE]
       ELSE [ids |-> ids, cache |-> Put(cache, cache_key, ids), read |-> read,
             raised |-> FALSE]

\* Mutant: the cache test is skipped, every call goes to the file.
load_cell_line_ids_rereads(cache, files, species, cell_tissue) ==
    load_cell_line_ids_miss(cache, files, species, cell_tissue)

\* Returns [ids, cache, read]: the list for (species, cell_tissue), the cache
\* after the call, and whether the per-tissue file was opened.
load_cell_line_ids(cache, files, species, cell_tissue) ==
    IF << species, cell_tissue >> \in DOMAIN cache
    THEN [ids |-> cache[<< species, cell_tissue >>], cache |-> cache,
          read |-> FALSE, raised |-> FALSE]
    ELSE load_cell_line_ids_miss(cache, files, species, cell_tissue)

(***************************************************************************)
(* Count cache: load_tf_count_data, get_tf_count_from_csv.                 *)
(***************************************************************************)
ZeroCounts == [all |-> 0, chip |-> 0, predicted |-> 0]

\* Mutant: a predicted name is not added to the total.
AddCount_chip_only_in_all(mapping, key, field, count) ==
    Put(mapping, key,
        [(IF key \in DOMAIN mapping THEN mapping[key] ELSE ZeroCounts)
           EXCEPT ![field] = @ + count,
                  !.all = IF field = "chip" THEN @ + count ELSE @])

\* mapping.setdefault(key, zeros) followed by the two increments.
AddCount(mapping, key, field, count) ==
    LET entry == IF key \in DOMAIN mapping THEN mapping[key] ELSE ZeroCounts
    IN Put(mapping, key,
           [entry EXCEPT ![field] = @ + count, !.all = @ + count])

\* The body of the loop over the rows of the CSV file, for one row.
AddCsvRow(mapping, row) ==
    LET cell_tissue == row.cell_tissue
        tfbs == Strip(row.TFBS)
        predicted_tfbs == Strip(row.predicted_TFBS)
        count == PyInt(Strip(IF row.count_of_id = << >> THEN << "0" >>
                             ELSE row.count_of_id))
    IN IF count = << >> THEN mapping
       ELSE LET m1 == IF cell_tissue # "" /\ tfbs # << >>
                      THEN AddCount(mapping, << cell_tissue, tfbs >>, "chip", count[1])
                      ELSE mapping
            IN IF cell_tissue # "" /\ predicted_tfbs # << >>
               THEN AddCount(m1, << cell_tissue, predicted_tfbs >>, "predicted", count[1])
               ELSE m1

RECURSIVE ParseCountCsv(_)
ParseCountCsv(rows) ==
    IF Len(rows) = 0 THEN << >>
    ELSE AddCsvRow(ParseCountCsv(Front0(rows)), rows[Len(rows)])

\* The pickle file after the attempt to write `mapping` to it: written, left
\* alone (open failed) or left truncated (dump failed).
WritePickle(file, mapping, pkl_write) ==
    CASE pkl_write = "ok" ->
            [file EXCEPT !.pkl_exists = TRUE, !.pkl_mtime = file.csv_mtime + 1,
                         !.pkl_ok = TRUE, !.pkl_mapping = mapping]
      [] pkl_write = "open_failed" -> file
      [] pkl_write = "dump_failed" ->
            [file EXCEPT !.pkl_exists = TRUE, !.pkl_mtime = file.csv_mtime + 1,
                         !.pkl_ok = FALSE, !.pkl_mapping = << >>]

\* Mutant: a pickle that cannot be decoded leaves the mapping empty.
load_tf_count_data_miss_gives_up(cache, files, species, pkl_write) ==
    LET file == files[species]
        csv_mtime == IF file.csv_exists THEN file.csv_mtime ELSE 0
        unpickled == IF file.pkl_exists /\ file.pkl_mtime >= csv_mtime
                     THEN {"pkl"} ELSE {}
    IN IF file.pkl_exists /\ file.pkl_mtime >= csv_mtime
       THEN [mapping |-> file.pkl_mapping,
             cache |-> Put(cache, species, file.pkl_mapping),
             files |-> files, parsed |-> FALSE, opened |-> {"pkl"}]
       ELSE IF file.csv_exists
       THEN [mapping |-> ParseCountCsv(file.csv_rows),
             cache |-> Put(cache, species, ParseCountCsv(file.csv_rows)),
             files |-> [files EXCEPT
                          ![species] = WritePickle(file, ParseCountCsv(file.csv_rows),
                                                   pkl_write)],
             parsed |-> TRUE, opened |-> unpickled \cup {"csv"}]
       ELSE [mapping |-> << >>, cache |-> Put(cache, species, << >>),
             files |-> files, parsed |-> FALSE, opened |-> unpickled]

\* Mutant: a pickle as old as the CSV file is taken for stale.
load_tf_count_data_miss_strictly_newer(cache, files, species, pkl_write) ==
    LET file == files[species]
        csv_mtime == IF file.csv_exists THEN file.csv_mtime ELSE 0
        unpickled == IF file.pkl_exists /\ file.pkl_mtime > csv_mtime
                     THEN {"pkl"} ELSE {}
    IN IF file.pkl_exists /\ file.pkl_mtime > csv_mtime /\ file.pkl_ok
       THEN [mapping |-> file.pkl_mapping,
             cache |-> Put(cache, species, file.pkl_mapping),
             files |-> files, parsed |-> FALSE, opened |-> {"pkl"}]
       ELSE IF file.csv_exists
       THEN [mapping |-> ParseCountCsv(file.csv_rows),
             cache |-> Put(cache, species, ParseCountCsv(file.csv_rows)),
             files |-> [files EXCEPT
                          ![species] = WritePickle(file, ParseCountCsv(file.csv_rows),
                                                   pkl_write)],
             parsed |-> TRUE, opened |-> unpickled \cup {"csv"}]
       ELSE [mapping |-> << >>, cache |-> Put(cache, species, << >>),
             files |-> files, parsed |-> FALSE, opened |-> unpickled]

\* load_tf_count_data past the memory test: the pickle if it is usable, else
\* the CSV file.  opened: the files opened for reading.
load_tf_count_data_miss(cache, files, species, pkl_write) ==
    LET file == files[species]
        csv_mtime == IF file.csv_exists THEN file.csv_mtime ELSE 0
        unpickled == IF file.pkl_exists /\ file.pkl_mtime >= csv_mtime
                     THEN {"pkl"} ELSE {}
    IN IF file.pkl_exists /\ file.pkl_mtime >= csv_mtime /\ file.pkl_ok
       THEN [mapping |-> file.pkl_mapping,
             cache |-> Put(cache, species, file.pkl_mapping),
             files |-> files, parsed |-> FALSE, opened |-> {"pkl"}]
       ELSE IF file.csv_exists
       THEN LET mapping == ParseCountCsv(file.csv_rows)
            IN [mapping |-> mapping,
                cache |-> Put(cache, species, mapping),
                files |-> [files EXCEPT
                             ![species] = WritePickle(file, mapping, pkl_write)],
                parsed |-> TRUE, opened |-> unpickled \cup {"csv"}]
       ELSE [mapping |-> << >>, cache |-> Put(cache, species, << >>),
             files |-> files, parsed |-> FALSE, opened |-> unpickled]

\* The outcome l of a build, not kept in memory when the pickle was not written.
ForgottenOnWriteFailure(l, cache, pkl_write) ==
    IF l.parsed /\ pkl_write # "ok" THEN [l EXCEPT !.cache = cache] ELSE l

\* Mutant: a pickle that cannot be written ends the call before the mapping
\* is stored.
load_tf_count_data_write_fatal(cache, files, species, pkl_write) ==
    IF species \in DOMAIN cache
    THEN [mapping |-> cache[species], cache |-> cache, files |-> files,
          parsed |-> FALSE, opened |-> {}]
    ELSE ForgottenOnWriteFailure(
             load_tf_count_data_miss(cache, files, species, pkl_write),
             cache, pkl_write)

\* Mutant: the memory test is skipped.
load_tf_count_data_no_memory(cache, files, species, pkl_write) ==
    load_tf_count_data_miss(cache, files, species, pkl_write)

\* Returns [mapping, cache, files, parsed, opened]: the mapping of the
\* species, the cache and the files after the call, whether the CSV file was
\* parsed, and the files opened for reading.
load_tf_count_data(cache, files, species, pkl_write) ==
    IF species \in DOMAIN cache
    THEN [mapping |-> cache[species], cache |-> cache, files |-> files,
          parsed |-> FALSE, opened |-> {}]
    ELSE load_tf_count_data_miss(cache, files, species, pkl_write)

\* Mutant: the evidence type is ignored and the total is returned.
CountsGet_always_all(counts, tfbs_type) == counts.all

\* Mutant: chip and predicted are swapped.
CountsGet_swapped(counts, tfbs_type) ==
    CASE tfbs_type = "all" -> counts.all
      [] tfbs_type = "chip" -> counts.predicted
      [] tfbs_type = "predicted" -> counts.chip
      [] OTHER -> 0

\* counts.get(tfbs_type, 0)
CountsGet(counts, tfbs_type) ==
    CASE tfbs_type = "all" -> counts.all
      [] tfbs_type = "chip" -> counts.chip
      [] tfbs_type = "predicted" -> counts.predicted
      [] OTHER -> 0

\* Returns [count, cache, files, parsed].
get_tf_count_from_csv(cache, files, species, cell_tissue, tf_name, tfbs_type, pkl_write) ==
    LET loaded == load_tf_count_data(cache, files, species, pkl_write)
        key == << cell_tissue, tf_name >>
        counts == IF key \in DOMAIN loaded.mapping THEN loaded.mapping[key]
                  ELSE ZeroCounts
    IN [count |-> CountsGet(counts, tfbs_type), cache |-> loaded.cache,
        files |-> loaded.files, parsed |-> loaded.parsed]

(***************************************************************************)
(* Specification of the count cache alone: counts are looked up for        *)
(* (species, tissue, term, evidence type), over varied CSV and pickle      *)
(* files.                                                                  *)
(***************************************************************************)
Species == {"human", "mouse"}
Tissues == {"T", "U"}
Terms == {TermX, TermY}
EvidenceTypes == {"all", "chip", "predicted", "other"}
PklWriteOutcomes == {"ok", "open_failed", "dump_failed"}

CsvRow(t, c, p, n) ==
    [cell_tissue |-> t, TFBS |-> c, predicted_TFBS |-> p, count_of_id |-> n]

CsvRowSamples ==
    { CsvRow("T", TermX, << >>, << "2" >>),
      CsvRow("T", << >>, TermX, << "1" >>),
      CsvRow("T", TermX, TermX, << "1" >>),
      CsvRow("T", TermY, TermX, << " ", "2" >>),
      CsvRow("", TermX, << >>, << "1" >>),
      CsvRow("T", TermX, TermY, << "x" >>),
      CsvRow("U", TermY, << >>, << >>) }

CsvContents == UNION { [1..n -> CsvRowSamples] : n \in 0..MaxCsvRows }

\* A pickle left by an earlier process, built from an earlier CSV file.
OldMapping == ParseCountCsv(<< CsvRow("T", TermX, << >>, << "1" >>) >>)

NoCountFiles ==
    [csv_exists |-> FALSE, csv_rows |-> << >>, csv_mtime |-> 1,
     pkl_exists |-> FALSE, pkl_mtime |-> 0, pkl_ok |-> FALSE, pkl_mapping |-> << >>]

PickleStates ==
    { [pkl_exists |-> FALSE, pkl_mtime |-> 0, pkl_ok |-> FALSE, pkl_mapping |-> << >>],
      [pkl_exists |-> TRUE, pkl_mtime |-> 0, pkl_ok |-> TRUE, pkl_mapping |-> OldMapping],
      [pkl_exists |-> TRUE, pkl_mtime |-> 1, pkl_ok |-> TRUE, pkl_mapping |-> OldMapping],
      [pkl_exists |-> TRUE, pkl_mtime |-> 2, pkl_ok |-> FALSE, pkl_mapping |-> << >>] }

WithPickle(file, pkl) ==
    [file EXCEPT !.pkl_exists = pkl.pkl_exists, !.pkl_mtime = pkl.pkl_mtime,
                 !.pkl_ok = pkl.pkl_ok, !.pkl_mapping = pkl.pkl_mapping]

CountFileStates ==
    { WithPickle(NoCountFiles, pkl) : pkl \in PickleStates }
    \cup { WithPickle([NoCountFiles EXCEPT !.csv_exists = TRUE, !.csv_rows = rows], pkl) :
             rows \in CsvContents, pkl \in PickleStates }

MouseCountFiles ==
    [NoCountFiles EXCEPT !.csv_exists = TRUE,
                         !.csv_rows = << CsvRow("T", TermY, << >>, << "3" >>) >>]

Idle == request.op = "none"

\* The handler has answered; the worker takes the next request.
Return ==
    /\ ~Idle
    /\ request' = NoRequest
    /\ response' = NoResponse
    /\ UNCHANGED << storeVars, fileVars, cacheVars, session, auxVars >>

InitCount ==
    /\ EmptyStore /\ EmptyCaches
    /\ settings = DefaultSettings /\ Untracked
    /\ cell_line_files = << >>
    /\ \E f \in CountFileStates :
          tf_count_files = [s \in Species |-> IF s = "human" THEN f ELSE MouseCountFiles]
    /\ session = << >>
    /\ request = NoRequest
    /\ response = NoResponse

GetTfCount ==
    /\ Idle
    /\ \E species \in Species, cell_tissue \in Tissues, tf_name \in Terms,
          tfbs_type \in EvidenceTypes, pkl_write \in PklWriteOutcomes :
          LET r == get_tf_count_from_csv(_tf_count_cache, tf_count_files, species,
                                         cell_tissue, tf_name, tfbs_type, pkl_write)
          IN /\ request' = [op |-> "count", species |-> species,
                            cell_tissue |-> cell_tissue, tf_name |-> tf_name,
                            tfbs_type |-> tfbs_type]
             /\ response' = [op |-> "count", count |-> r.count, parsed |-> r.parsed]
             /\ _tf_count_cache' = r.cache
             /\ tf_count_files' = r.files
             /\ UNCHANGED << storeVars, cell_line_files, _cell_line_ids_cache, session, auxVars >>

NextCount == GetTfCount \/ Return

SpecCount == InitCount /\ [][NextCount]_vars

(***************************************************************************)
(* Specification of the two caches alone: the cache functions are called   *)
(* one call at a time, and between calls the files on disk may be          *)
(* replaced.                                                               *)
(***************************************************************************)
CacheTissues == {""} \cup Tissues

TissueFile(exists, rows) == [exists |-> exists, rows |-> rows, readable |-> TRUE]

\* <tissue>.csv per (species, tissue): as deployed; with a file of T that
\* holds no id; with a file for U as well.
TissueFileStates ==
    { [k \in {"human"} \X Tissues |->
          IF k[2] = "T" THEN TissueFile(TRUE, << << "1" >>, << "x" >>, << " ", "3" >> >>)
          ELSE TissueFile(FALSE, << >>)],
      [k \in {"human"} \X Tissues |->
          IF k[2] = "T" THEN TissueFile(TRUE, << << "x" >> >>)
          ELSE TissueFile(FALSE, << >>)],
      [k \in {"human"} \X Tissues |->
          IF k[2] = "T" THEN TissueFile(TRUE, << << "1" >> >>)
          ELSE TissueFile(TRUE, << << "2" >> >>)] }

OneRowCsv == << CsvRow("T", TermX, << >>, << "2" >>) >>

\* The count files of human: no file at all, or a CSV file of a single row
\* with every state of the pickle.
CacheCountFileStates ==
    { f \in CountFileStates :
        \/ ~f.csv_exists /\ ~f.pkl_exists
        \/ f.csv_exists /\ f.csv_rows = OneRowCsv }

LoadIdsAnswer(req, l) ==
    /\ request' = req
    /\ response' = [op |-> "load_ids", ids |-> l.ids, read |-> l.read]
    /\ _cell_line_ids_cache' = l.cache
    /\ UNCHANGED << storeVars, fileVars, _tf_count_cache, session, auxVars >>

\* A call of load_cell_line_ids(species, cell_tissue).
LoadCellLineIds ==
    /\ Idle
    /\ \E species \in {"human"}, cell_tissue \in CacheTissues :
          LoadIdsAnswer([op |-> "load_ids", species |-> species,
                         cell_tissue |-> cell_tissue],
                        load_cell_line_ids(_cell_line_ids_cache, cell_line_files,
                                           species, cell_tissue))

LoadCountsAnswer(req, l) ==
    /\ request' = req
    /\ response' = [op |-> "load_counts", mapping |-> l.mapping,
                    parsed |-> l.parsed, opened |-> l.opened]
    /\ _tf_count_cache' = l.cache
    /\ tf_count_files' = l.files
    /\ UNCHANGED << storeVars, cell_line_files, _cell_line_ids_cache, session,
                    auxVars >>

\* A call of load_tf_count_data(species).
LoadTfCountData ==
    /\ Idle
    /\ \E species \in Species, pkl_write \in PklWriteOutcomes :
          LoadCountsAnswer([op |-> "load_counts", species |-> species],
                           load_tf_count_data(_tf_count_cache, tf_count_files,
                                              species, pkl_write))

\* Between two calls the operator replaces the per-tissue files, or the
\* count files of human.
ReplaceFiles ==
    /\ Idle
    /\ \/ /\ cell_line_files' \in TissueFileStates \ {cell_line_files}
          /\ UNCHANGED tf_count_files
       \/ /\ \E f \in CacheCountFileStates \ {tf_count_files["human"]} :
                tf_count_files' = [tf_count_files EXCEPT !["human"] = f]
          /\ UNCHANGED cell_line_files
    /\ UNCHANGED << storeVars, cacheVars, session, request, response, auxVars >>

InitCache ==
    /\ EmptyStore /\ EmptyCaches
    /\ settings = DefaultSettings /\ Untracked
    /\ cell_line_files \in TissueFileStates
    /\ \E f \in CacheCountFileStates :
          tf_count_files = [s \in Species |-> IF s = "human" THEN f ELSE MouseCountFiles]
    /\ session = << >>
    /\ request = NoRequest
    /\ response = NoResponse

NextCache == LoadCellLineIds \/ LoadTfCountData \/ ReplaceFiles \/ Return

SpecCache == InitCache /\ [][NextCache]_vars

(***************************************************************************)
(* Specification of the two caches under request threads.  The functions   *)
(* take no lock, so a thread may be suspended between any two of their     *)
(* steps: the membership test on the module-level dict (with the return of *)
(* the cached value on a hit), the reading of the backing files that       *)
(* builds the value, the writing of the pickle (opened, which truncates    *)
(* it, then dumped), and the assignment that stores the value.  `threads`  *)
(* holds where every thread is (`at`) and how often the value of every key *)
(* has been built (`builds`).                                              *)
(***************************************************************************)
ThreadIds == {"t1", "t2"}

\* The cache keys: (species, cell_tissue) for the ids, (species) for the counts.
IdsKeys == {"human"} \X CacheTissues
CountsKeys == { << "human" >> }

Outside == [pc |-> "outside", fn |-> "", key |-> << >>, value |-> << >>]

InsideThread(pc, fn, key, value) ==
    [pc |-> pc, fn |-> fn, key |-> key, value |-> value]

ThreadsAtStart ==
    [at |-> [t \in ThreadIds |-> Outside],
     builds |-> [k \in IdsKeys \cup CountsKeys |-> 0]]

\* `if key in cache: return cache[key]` of either function.
TestCache(t, fn, key, cache, cache_key) ==
    threads' = [threads EXCEPT !.at[t] =
                   IF cache_key \in DOMAIN cache
                   THEN InsideThread("returning", fn, key, cache[cache_key])
                   ELSE InsideThread("missed", fn, key, << >>)]

\* A thread enters load_cell_line_ids and tests the cache.
TestIdsCache(t) ==
    /\ threads.at[t].pc = "outside"
    /\ \E key \in IdsKeys :
          TestCache(t, "load_cell_line_ids", key, _cell_line_ids_cache, key)
    /\ UNCHANGED << storeVars, fileVars, cacheVars, session, request, response,
                    settings, previous >>

\* A thread enters load_tf_count_data and tests the cache.
TestCountsCache(t) ==
    /\ threads.at[t].pc = "outside"
    /\ \E key \in CountsKeys :
          TestCache(t, "load_tf_count_data", key, _tf_count_cache, key[1])
    /\ UNCHANGED << storeVars, fileVars, cacheVars, session, request, response,
                    settings, previous >>

\* The thread has built `value` for its key.
Built(t, value) ==
    threads' = [threads EXCEPT !.at[t].pc = "built", !.at[t].value = value,
                               !.builds[threads.at[t].key] = @ + 1]

\* Mutant: the list is put into the cache before its last id is appended.
BuildIds_fills_in_place(t) ==
    /\ threads.at[t].pc = "missed"
    /\ threads.at[t].fn = "load_cell_line_ids"
    /\ Built(t, load_cell_line_ids_miss(_cell_line_ids_cache, cell_line_files,
                                        threads.at[t].key[1],
                                        threads.at[t].key[2]).ids)
    /\ _cell_line_ids_cache'
         = Put(_cell_line_ids_cache, threads.at[t].key,
               Front0(load_cell_line_ids_miss(_cell_line_ids_cache, cell_line_files,
                                              threads.at[t].key[1],
                                              threads.at[t].key[2]).ids))
    /\ UNCHANGED << storeVars, fileVars, _tf_count_cache, session, request,
                    response, settings, previous >>

\* The per-tissue file is looked for and read.
BuildIds(t) ==
    /\ threads.at[t].pc = "missed"
    /\ threads.at[t].fn = "load_cell_line_ids"
    /\ Built(t, load_cell_line_ids_miss(_cell_line_ids_cache, cell_line_files,
                                        threads.at[t].key[1],
                                        threads.at[t].key[2]).ids)
    /\ UNCHANGED << storeVars, fileVars, cacheVars, session, request, response,
                    settings, previous >>

\* The value l.mapping is built.  After a parse of the CSV file the pickle
\* is opened for writing: the open fails and the file is left alone, or it
\* succeeds and the file is empty until the dump.
BuiltCounts(t, l, opened) ==
    /\ threads' = [threads EXCEPT
                      !.at[t].pc = IF l.parsed /\ opened THEN "dumping" ELSE "built",
                      !.at[t].value = l.mapping,
                      !.builds[threads.at[t].key] = @ + 1]
    /\ tf_count_files' = l.files

\* The pickle is loaded, or the CSV file is parsed and the pickle opened.
BuildCounts(t) ==
    /\ threads.at[t].pc = "missed"
    /\ threads.at[t].fn = "load_tf_count_data"
    /\ \E pkl_write \in {"open_failed", "dump_failed"} :
          BuiltCounts(t, load_tf_count_data_miss(_tf_count_cache, tf_count_files,
                                                 threads.at[t].key[1], pkl_write),
                      pkl_write # "open_failed")
    /\ UNCHANGED << storeVars, cell_line_files, cacheVars, session, request,
                    response, settings, previous >>

\* pickle.dump(mapping, f): the pickle is written, or the dump fails and the
\* file stays truncated.
DumpPickle(t) ==
    /\ threads.at[t].pc = "dumping"
    /\ \E pkl_write \in {"ok", "dump_failed"} :
          tf_count_files'
            = [tf_count_files EXCEPT ![threads.at[t].key[1]] =
                 WritePickle(@, threads.at[t].value, pkl_write)]
    /\ threads' = [threads EXCEPT !.at[t].pc = "built"]
    /\ UNCHANGED << storeVars, cell_line_files, cacheVars, session, request,
                    response, settings, previous >>

\* _cell_line_ids_cache[cache_key] = ids
StoreIds(t) ==
    /\ threads.at[t].pc = "built"
    /\ threads.at[t].fn = "load_cell_line_ids"
    /\ _cell_line_ids_cache'
         = Put(_cell_line_ids_cache, threads.at[t].key, threads.at[t].value)
    /\ threads' = [threads EXCEPT !.at[t].pc = "returning"]
    /\ UNCHANGED << storeVars, fileVars, _tf_count_cache, session, request,
                    response, settings, previous >>

\* _tf_count_cache[species] = mapping
StoreCounts(t) ==
    /\ threads.at[t].pc = "built"
    /\ threads.at[t].fn = "load_tf_count_data"
    /\ _tf_count_cache'
         = Put(_tf_count_cache, threads.at[t].key[1], threads.at[t].value)
    /\ threads' = [threads EXCEPT !.at[t].pc = "returning"]
    /\ UNCHANGED << storeVars, fileVars, _cell_line_ids_cache, session, request,
                    response, settings, previous >>

\* The function returns its value to the thread.
ReturnValue(t) ==
    /\ threads.at[t].pc = "returning"
    /\ threads' = [threads EXCEPT !.at[t] = Outside]
    /\ UNCHANGED << storeVars, fileVars, cacheVars, session, request, response,
                    settings, previous >>

InitThreads ==
    /\ EmptyStore /\ EmptyCaches
    /\ settings = DefaultSettings /\ previous = NoPrevious
    /\ threads = ThreadsAtStart
    /\ cell_line_files \in TissueFileStates
    /\ \E f \in CacheCountFileStates :
          tf_count_files = [s \in Species |-> IF s = "human" THEN f ELSE MouseCountFiles]
    /\ session = << >>
    /\ request = NoRequest
    /\ response = NoResponse

NextThreads ==
    \E t \in ThreadIds :
        \/ TestIdsCache(t)
        \/ TestCountsCache(t)
        \/ BuildIds(t)
        \/ BuildCounts(t)
        \/ DumpPickle(t)
        \/ StoreIds(t)
        \/ StoreCounts(t)
        \/ ReturnValue(t)

SpecThreads == InitThreads /\ [][NextThreads]_vars

(***************************************************************************)
(* The search functions.  `w` is the world a call sees (store tables,      *)
(* files, module-level caches) and `env` what the environment decides      *)
(* during the call: db_up (the connection can be used), scan (the order in *)
(* which the store visits the position rows where the statement leaves it  *)
(* open) and pkl_write (the outcome of writing the pickle).  Every         *)
(* function returns [raised, results, count, raw, store_ops, world]:       *)
(* raw is raw_results, store_ops the number of cursors opened and          *)
(* statements executed, world the world after the call.                    *)
(***************************************************************************)
NULL == << "NULL" >>

World ==
    [TFBS_position |-> TFBS_position, TFBS_name |-> TFBS_name,
     tfbs_name_counts |-> tfbs_name_counts,
     cell_line_files |-> cell_line_files, tf_count_files |-> tf_count_files,
     ids_cache |-> _cell_line_ids_cache, count_cache |-> _tf_count_cache]

Scanned(table, scan) == [i \in 1..Len(table) |-> table[scan[i]]]

Returned(results, count, raw, store_ops, w) ==
    [raised |-> FALSE, results |-> results, count |-> count, raw |-> raw,
     store_ops |-> store_ops, world |-> w]

Raised(store_ops, w) ==
    [raised |-> TRUE, results |-> << >>, count |-> 0, raw |-> << >>,
     store_ops |-> store_ops, world |-> w]

\* The closing loop and the return of a search function.
Fetched(count, raw_results, store_ops, w) ==
    Returned(DedupByCoordinate(raw_results), count, raw_results, store_ops, w)

\* The same when the count came with a count cache and its files.
Counted(c, raw_results, store_ops, w) ==
    Fetched(c.count, raw_results, store_ops,
            [w EXCEPT !.count_cache = c.cache, !.tf_count_files = c.files])

\* [allowed_ids, world, raised] once l = load_cell_line_ids(species,
\* cell_line) ran.
Allowed(l, w) ==
    [allowed_ids |-> AllowOnly(l.ids), world |-> [w EXCEPT !.ids_cache = l.cache],
     raised |-> l.raised]

\* allowed_ids = None, or load_cell_line_ids(species, cell_line) if cell_line.
ResolveAllowed(w, species, cell_line) ==
    IF cell_line # ""
    THEN Allowed(load_cell_line_ids(w.ids_cache, w.cell_line_files, species,
                                    cell_line), w)
    ELSE [allowed_ids |-> NoFilter, world |-> w, raised |-> FALSE]

\* Mutant: the early return on an empty list is never taken.
EmptyAllowList_never(allowed_ids) == FALSE

\* `if not allowed_ids:` under `if cell_line:`.
EmptyAllowList(allowed_ids) == allowed_ids.filter /\ allowed_ids.ids = << >>

\* cursor.fetchall() of the statement with or without OFFSET / LIMIT.
Fetch(selected, paging) ==
    IF paging.no_pagination THEN selected
    ELSE OffsetLimit(selected, paging.offset, paging.limit)

\* search_by_location from the early return on; a = [allowed_ids, world].
search_by_location_allowed(a, env, chromosome, start, end, paging) ==
    IF a.raised THEN Raised(0, a.world)
    ELSE IF EmptyAllowList(a.allowed_ids) THEN Returned(<< >>, 0, << >>, 0, a.world)
    ELSE IF ~env.db_up THEN Raised(1, a.world)
    ELSE LET heap == Scanned(a.world.TFBS_position, env.scan)
         IN Fetched(LocationCount(heap, chromosome, start, end, a.allowed_ids),
                    Fetch(LocationSelect(heap, chromosome, start, end,
                                         a.allowed_ids), paging),
                    3, a.world)

search_by_location(w, env, species, chromosome, start, end, paging, cell_line) ==
    search_by_location_allowed(ResolveAllowed(w, species, cell_line), env,
                               chromosome, start, end, paging)

\* Mutant: the evidence type is ignored, either column may hold the name.
_get_name_condition_and_params_either(n, tf_name, tfbs_type) ==
    \/ n.TFBS # NULL /\ n.TFBS = tf_name
    \/ n.predicted_TFBS # NULL /\ n.predicted_TFBS = tf_name

\* The name condition of a single search, on a row n of TFBS_name.
_get_name_condition_and_params(n, tf_name, tfbs_type) ==
    CASE tfbs_type = "chip" -> n.TFBS # NULL /\ n.TFBS = tf_name
      [] tfbs_type = "predicted" ->
            n.predicted_TFBS # NULL /\ n.predicted_TFBS = tf_name
      [] OTHER -> \/ n.TFBS # NULL /\ n.TFBS = tf_name
                  \/ n.predicted_TFBS # NULL /\ n.predicted_TFBS = tf_name

\* batch_name_cond: the same with IN (tf_names).
batch_name_cond(n, tf_names, tfbs_type) ==
    \E k \in DOMAIN tf_names :
        _get_name_condition_and_params(n, tf_names[k], tfbs_type)

\* SELECT DISTINCT p.* FROM "TFBS_position" p WHERE [p."ID" = ANY(%s) AND]
\* EXISTS (SELECT 1 FROM "TFBS_name" n WHERE n."ID" = p."ID" AND cond).
NameSelect(heap, names, tf_names, tfbs_type, allowed_ids) ==
    SelectSeq(heap, LAMBDA p :
        /\ IdAllowed(p.ID, allowed_ids)
        /\ \E k \in DOMAIN names :
              /\ names[k].ID = p.ID
              /\ batch_name_cond(names[k], tf_names, tfbs_type))

\* count_info[0], [1] or [2] by evidence type.
CountColumn(count_info, tfbs_type) ==
    CASE tfbs_type = "chip" -> count_info.tfbs_count
      [] tfbs_type = "predicted" -> count_info.predicted_tfbs_count
      [] OTHER -> count_info.all_count

\* SELECT ... FROM tfbs_name_counts WHERE tfbs = %s; fetchone().
AggregateCount(counts, tf_name, tfbs_type) ==
    LET rows == SelectSeq(counts, LAMBDA r : r.tfbs = tf_name)
    IN IF Len(rows) = 0 THEN 0 ELSE CountColumn(rows[1], tfbs_type)

\* A count taken from the store, in the shape of one taken from the cache.
StoreCount(count, w) ==
    [count |-> count, cache |-> w.count_cache, files |-> w.tf_count_files]

\* search_by_tf_name from the early return on.
search_by_tf_name_allowed(a, env, species, tf_name, paging, cell_line, tfbs_type) ==
    IF a.raised THEN Raised(0, a.world)
    ELSE IF EmptyAllowList(a.allowed_ids) THEN Returned(<< >>, 0, << >>, 0, a.world)
    ELSE IF ~env.db_up THEN Raised(1, a.world)
    ELSE Counted(IF a.allowed_ids.filter
                 THEN get_tf_count_from_csv(a.world.count_cache,
                          a.world.tf_count_files, species, cell_line, tf_name,
                          tfbs_type, env.pkl_write)
                 ELSE StoreCount(AggregateCount(a.world.tfbs_name_counts, tf_name,
                                                tfbs_type), a.world),
                 Fetch(NameSelect(Scanned(a.world.TFBS_position, env.scan),
                                  a.world.TFBS_name, << tf_name >>, tfbs_type,
                                  a.allowed_ids), paging),
                 IF a.allowed_ids.filter THEN 2 ELSE 3,
                 a.world)

search_by_tf_name(w, env, species, tf_name, paging, cell_line, tfbs_type) ==
    search_by_tf_name_allowed(ResolveAllowed(w, species, cell_line), env, species,
                              tf_name, paging, cell_line, tfbs_type)

\* sum(get_tf_count_from_csv(species, cell_line, tf_name, tfbs_type)
\*     for tf_name in tf_names), the calls made in list order.
AddTo(c, rest) ==
    [count |-> c.count + rest.count, cache |-> rest.cache, files |-> rest.files]

\* The calls for tf_names[lo..hi] in list order, each seeing the cache and
\* the files the call before it left (the list is cut in halves so that a
\* list of a thousand names does not nest a thousand deep).
RECURSIVE SumTfCountsRange(_, _, _, _, _, _, _, _, _)
SumTfCountsAfter(c, species, cell_line, tf_names, lo, hi, tfbs_type, pkl_write) ==
    AddTo(c, SumTfCountsRange(c.cache, c.files, species, cell_line, tf_names,
                              lo, hi, tfbs_type, pkl_write))

SumTfCountsRange(cache, files, species, cell_line, tf_names, lo, hi, tfbs_type, pkl_write) ==
    IF lo > hi THEN [count |-> 0, cache |-> cache, files |-> files]
    ELSE IF lo = hi
    THEN SumTfCountsAfter(
             get_tf_count_from_csv(cache, files, species, cell_line, tf_names[lo],
                                   tfbs_type, pkl_write),
             species, cell_line, tf_names, lo + 1, hi, tfbs_type, pkl_write)
    ELSE SumTfCountsAfter(
             SumTfCountsRange(cache, files, species, cell_line, tf_names,
                              lo, (lo + hi) \div 2, tfbs_type, pkl_write),
             species, cell_line, tf_names, (lo + hi) \div 2 + 1, hi, tfbs_type,
             pkl_write)

SumTfCounts(cache, files, species, cell_line, tf_names, tfbs_type, pkl_write) ==
    SumTfCountsRange(cache, files, species, cell_line, tf_names, 1, Len(tf_names),
                     tfbs_type, pkl_write)

RECURSIVE SumColumn(_, _)
SumColumn(rows, tfbs_type) ==
    IF Len(rows) = 0 THEN 0
    ELSE CountColumn(rows[1], tfbs_type) + SumColumn(Tail0(rows), tfbs_type)

\* SELECT ... FROM tfbs_name_counts WHERE tfbs IN (...); summed over fetchall().
AggregateCountIn(counts, tf_names, tfbs_type) ==
    SumColumn(SelectSeq(counts, LAMBDA r : r.tfbs \in Range(tf_names)), tfbs_type)

\* batch_search_by_tf_name from the early return on.
batch_search_by_tf_name_allowed(a, env, species, tf_names, paging, cell_line, tfbs_type) ==
    IF a.raised THEN Raised(0, a.world)
    ELSE IF EmptyAllowList(a.allowed_ids) THEN Returned(<< >>, 0, << >>, 0, a.world)
    ELSE IF ~env.db_up THEN Raised(1, a.world)
    ELSE Counted(IF a.allowed_ids.filter
                 THEN SumTfCounts(a.world.count_cache, a.world.tf_count_files,
                          species, cell_line, tf_names, tfbs_type, env.pkl_write)
                 ELSE StoreCount(AggregateCountIn(a.world.tfbs_name_counts,
                                                  tf_names, tfbs_type), a.world),
                 Fetch(NameSelect(Scanned(a.world.TFBS_position, env.scan),
                                  a.world.TFBS_name, tf_names, tfbs_type,
                                  a.allowed_ids), paging),
                 IF a.allowed_ids.filter THEN 2 ELSE 3,
                 a.world)

batch_search_by_tf_name(w, env, species, tf_names, paging, cell_line, tfbs_type) ==
    IF Len(tf_names) = 0 THEN Returned(<< >>, 0, << >>, 0, w)
    ELSE batch_search_by_tf_name_allowed(ResolveAllowed(w, species, cell_line),
             env, species, tf_names, paging, cell_line, tfbs_type)

\* The collation of the chromosome names of the model.
Collation == << Chr1, Chr2 >>

SeqnamesRank(seqnames) == CHOOSE i \in DOMAIN Collation : Collation[i] = seqnames

\* ORDER BY "seqnames", "start"
RowLeq(a, b) ==
    \/ SeqnamesRank(a.seqnames) < SeqnamesRank(b.seqnames)
    \/ a.seqnames = b.seqnames /\ a.start <= b.start

RECURSIVE InsertBySeqnamesStart(_, _)
InsertBySeqnamesStart(sorted, row) ==
    IF Len(sorted) = 0 THEN << row >>
    ELSE IF RowLeq(sorted[Len(sorted)], row) THEN Append(sorted, row)
    ELSE Append(InsertBySeqnamesStart(Front0(sorted), row), sorted[Len(sorted)])

RECURSIVE OrderBySeqnamesStart(_)
OrderBySeqnamesStart(rows) ==
    IF Len(rows) = 0 THEN << >>
    ELSE InsertBySeqnamesStart(OrderBySeqnamesStart(Front0(rows)), rows[Len(rows)])

\* WHERE "seqnames" IN (...) [AND "ID" = ANY(%s)]
ChrOnlyWhere(p, chr_only_searches, allowed_ids) ==
    /\ p.seqnames \in Range(chr_only_searches)
    /\ IdAllowed(p.ID, allowed_ids)

\* chr_only_searches and region_searches of a list of locations.
ChromosomesOf(only) == [i \in 1..Len(only) |-> only[i].chromosome]

ChrOnlySearches(locations) ==
    ChromosomesOf(SelectSeq(locations, LAMBDA l : l.start = None \/ l.end = None))

RegionSearches(locations) ==
    SelectSeq(locations, LAMBDA l : ~(l.start = None \/ l.end = None))

\* total_count += region_count, for every region search.
RECURSIVE RegionCounts(_, _, _)
RegionCounts(heap, region_searches, allowed_ids) ==
    IF Len(region_searches) = 0 THEN 0
    ELSE LocationCount(heap, region_searches[1].chromosome,
                       region_searches[1].start, region_searches[1].end,
                       allowed_ids)
         + RegionCounts(heap, Tail0(region_searches), allowed_ids)

\* all_results.extend(region_results), for every region search.
RECURSIVE RegionResults(_, _, _, _)
RegionResults(heap, region_searches, allowed_ids, paging) ==
    IF Len(region_searches) = 0 THEN << >>
    ELSE Fetch(LocationSelect(heap, region_searches[1].chromosome,
                              region_searches[1].start, region_searches[1].end,
                              allowed_ids), paging)
         \o RegionResults(heap, Tail0(region_searches), allowed_ids, paging)

\* The count, the rows and the statements of the chromosome-only part.
ChrOnlyPart(chr_only_searches, chr_rows, paging) ==
    IF Len(chr_only_searches) = 0
    THEN [count |-> 0, results |-> << >>, store_ops |-> 0]
    ELSE [count |-> Len(chr_rows),
          results |-> Fetch(OrderBySeqnamesStart(chr_rows), paging),
          store_ops |-> 2]

\* The two parts put together.
LocationParts(chr, heap, region_searches, allowed_ids, paging, w) ==
    Fetched(chr.count + RegionCounts(heap, region_searches, allowed_ids),
            chr.results \o RegionResults(heap, region_searches, allowed_ids, paging),
            1 + chr.store_ops + 2 * Len(region_searches),
            w)

\* The statements over the two lists of searches.
batch_search_by_location_split(heap, chr_only_searches, region_searches, a, paging) ==
    LocationParts(
        ChrOnlyPart(chr_only_searches,
                    SelectSeq(heap, LAMBDA p :
                        ChrOnlyWhere(p, chr_only_searches, a.allowed_ids)),
                    paging),
        heap, region_searches, a.allowed_ids, paging, a.world)

\* batch_search_by_location from the early return on.
batch_search_by_location_allowed(a, env, locations, paging) ==
    IF a.raised THEN Raised(0, a.world)
    ELSE IF EmptyAllowList(a.allowed_ids) THEN Returned(<< >>, 0, << >>, 0, a.world)
    ELSE IF ~env.db_up THEN Raised(1, a.world)
    ELSE batch_search_by_location_split(
             Scanned(a.world.TFBS_position, env.scan),
             ChrOnlySearches(locations), RegionSearches(locations), a, paging)

batch_search_by_location(w, env, species, locations, paging, cell_line) ==
    IF Len(locations) = 0 THEN Returned(<< >>, 0, << >>, 0, w)
    ELSE batch_search_by_location_allowed(ResolveAllowed(w, species, cell_line),
                                          env, locations, paging)

\* download_gather_scores: one cursor and two statements, for a non-empty
\* id_list (the score tables are not part of the model).
download_gather_scores(results, env) ==
    IF Len(results) = 0 THEN [raised |-> FALSE, store_ops |-> 0]
    ELSE IF ~env.db_up THEN [raised |-> TRUE, store_ops |-> 1]
    ELSE [raised |-> FALSE, store_ops |-> 3]

\* The rows of the names followed by the rows of the locations.
BatchCombine(t, l) ==
    IF l.raised THEN Raised(t.store_ops + l.store_ops, l.world)
    ELSE Returned(t.results \o l.results, t.count + l.count, t.raw \o l.raw,
                  t.store_ops + l.store_ops, l.world)

\* `if locations:`, once the names are done with outcome t.
BatchLocations(t, env, species, locations, paging, cell_line) ==
    IF t.raised THEN t
    ELSE BatchCombine(t,
             IF Len(locations) > 0
             THEN batch_search_by_location(t.world, env, species, locations,
                                           paging, cell_line)
             ELSE Returned(<< >>, 0, << >>, 0, t.world))

\* `if tf_names:` and `if locations:`, once the queries are split.
BatchSearchSplit(w, env, species, tf_names, locations, paging, cell_line, tfbs_type) ==
    IF \E i \in DOMAIN locations : locations[i].raised # "" THEN Raised(0, w)
    ELSE BatchLocations(
             IF Len(tf_names) > 0
             THEN batch_search_by_tf_name(w, env, species, tf_names, paging,
                                          cell_line, tfbs_type)
             ELSE Returned(<< >>, 0, << >>, 0, w),
             env, species, locations, paging, cell_line)

ParsedLocations(located) ==
    [i \in 1..Len(located) |-> parse_genomic_location(located[i])]

\* The part the two batch handlers share: the queries are split into names
\* and locations, the names are searched, then the locations, and the two
\* row lists are put one after the other.
BatchSearch(w, env, species, queries, paging, cell_line, tfbs_type) ==
    BatchSearchSplit(w, env, species,
        SelectSeq(queries, LAMBDA q : ~is_genomic_location(q)),
        ParsedLocations(SelectSeq(queries, LAMBDA q : is_genomic_location(q))),
        paging, cell_line, tfbs_type)

(***************************************************************************)
(* The handlers.  A response records op, status ("ok", "error" for the     *)
(* error payload of the two API views, "exception" for an exception that   *)
(* leaves the view, "bad_request" / "server_error" for the 400 / 500 of    *)
(* the batch download), kind (how the query was classified), recordsTotal  *)
(* and data as sent, and count, raw and store_ops as returned by the       *)
(* search functions.                                                       *)
(***************************************************************************)
TenMiB == 10485760
MaxQueries == 1000
DefaultLength == 25

\* The message a response carries: 'error' of the API payload, the body of
\* the 400 / 500 of the batch download, the server error of a view that an
\* exception leaves; none on success.
ErrorMessage(status) ==
    CASE status = "ok" -> ""
      [] status = "error" -> "str(e)"
      [] status = "server_error" -> "Error generating CSV: str(e)"
      [] status = "bad_request" -> "No batch search data available"
      [] status = "exception" -> "Server Error (500)"

\* Mutant: the traceback is sent whatever DEBUG is.
ErrorDetails_always(status, debug) ==
    IF status \in {"error", "exception"} THEN "traceback" ELSE ""

\* 'details' of the API payload: error_details if settings.DEBUG else the
\* pointer to the logs; the traceback page of an uncaught exception is sent
\* under DEBUG alone.
ErrorDetails(status, debug) ==
    CASE status = "error" ->
            IF debug THEN "traceback" ELSE "See server logs for details"
      [] status = "exception" -> IF debug THEN "traceback" ELSE ""
      [] OTHER -> ""

SearchResponse(op, status, kind, r, data) ==
    [op |-> op, status |-> status, kind |-> kind,
     recordsTotal |-> IF status = "ok" THEN r.count ELSE 0,
     data |-> IF status = "ok" THEN data ELSE << >>,
     error |-> ErrorMessage(status),
     details |-> ErrorDetails(status, settings.DEBUG),
     count |-> r.count, raw |-> r.raw, store_ops |-> r.store_ops]

NoSearch == Returned(<< >>, 0, << >>, 0, World)

SetWorld(w) ==
    /\ _cell_line_ids_cache' = w.ids_cache
    /\ _tf_count_cache' = w.count_cache
    /\ tf_count_files' = w.tf_count_files
    /\ UNCHANGED << storeVars, cell_line_files >>

\* The handler returns: the request is recorded with its response, and the
\* caches and files are as the searches left them.
Respond(req, resp, w) ==
    /\ request' = req
    /\ response' = resp
    /\ SetWorld(w)
    /\ UNCHANGED << session, auxVars >>

Paginated(window) ==
    [no_pagination |-> FALSE, offset |-> window.start, limit |-> window.length]

NoPagination == [no_pagination |-> TRUE, offset |-> 0, limit |-> DefaultLength]

\* The search of a classified query q.
SearchClassified(w, env, species, query, q, paging, cell_line, tfbs_type) ==
    IF q.kind = "location"
    THEN IF q.raised # "" THEN Raised(0, w)
         ELSE search_by_location(w, env, species, q.chromosome, q.start, q.end,
                                 paging, cell_line)
    ELSE search_by_tf_name(w, env, species, query, paging, cell_line, tfbs_type)

\* The branch on is_genomic_location of the two single-query handlers.
SingleSearch(w, env, species, query, paging, cell_line, tfbs_type) ==
    SearchClassified(w, env, species, query, ClassifyQuery(query), paging,
                     cell_line, tfbs_type)

QueryKind(query) ==
    IF query = << >> THEN "none"
    ELSE IF is_genomic_location(query) THEN "location" ELSE "name"

\* `request.query_params.get('tfbs_type', '') or 'all'`
TfbsTypeParam(tfbs_type) == IF tfbs_type = "" THEN "all" ELSE tfbs_type

\* Mutant: the except clause answers with the empty page.
ApiStatus_swallowed(r) == "ok"

\* `except Exception` of the two API views: the error payload.
ApiStatus(r) == IF r.raised THEN "error" ELSE "ok"

\* The JSON payload of the two API views for the outcome r of the search.
ApiAnswer(op, req, kind, r) ==
    Respond(req, SearchResponse(op, ApiStatus(r), kind, r, r.results), r.world)

\* The CSV of the two download views, once the scores were looked up.
CsvScored(op, req, kind, failed, r, results, scores) ==
    Respond(req,
            SearchResponse(op, IF r.raised \/ scores.raised THEN failed ELSE "ok",
                           kind, [r EXCEPT !.store_ops = @ + scores.store_ops],
                           results),
            r.world)

CsvAnswer(op, req, kind, failed, env, r, results) ==
    CsvScored(op, req, kind, failed, r, results,
              IF r.raised THEN [raised |-> FALSE, store_ops |-> 0]
              ELSE download_gather_scores(results, env))

\* `if chromosome:` of download_results.
ChromosomeFilter(results, chromosome) ==
    IF chromosome # << >>
    THEN SelectSeq(results, LAMBDA row : row.seqnames = chromosome)
    ELSE results

(***************************************************************************)
(* Inputs of the handlers and contents of the store and of the files.      *)
(***************************************************************************)
MaxRecords == 2       \* rows of an enumerated TFBS_position table

SearchSpecies == {"human"}
CellLines == {"", "T", "U"}
TermZ == << "Z" >>

Interval(seqnames, start, end) ==
    [seqnames |-> seqnames, start |-> start, end |-> end]

Intervals ==
    { Interval(Chr1, 1, 2), Interval(Chr1, 1, 3), Interval(Chr1, 2, 3),
      Interval(Chr2, 1, 3) }

\* The rows get their ids in heap order.
PositionTable(rows) ==
    [i \in 1..Len(rows) |-> [ID |-> i, seqnames |-> rows[i].seqnames,
                             start |-> rows[i].start, end |-> rows[i].end]]

PositionTables ==
    { PositionTable(rows) :
        rows \in UNION { [1..n -> Intervals] : n \in 0..MaxRecords } }

NameRow(id, tfbs, predicted_tfbs) ==
    [ID |-> id, TFBS |-> tfbs, predicted_TFBS |-> predicted_tfbs]

NameSample(i) ==
    NameRow(i, IF i % 2 = 1 THEN TermX ELSE TermY,
            CASE i % 3 = 1 -> TermY [] i % 3 = 2 -> TermX [] OTHER -> NULL)

NamesFor(table) == [i \in 1..Len(table) |-> NameSample(i)]

CountsRow(tfbs, all_count, tfbs_count, predicted_tfbs_count) ==
    [tfbs |-> tfbs, all_count |-> all_count, tfbs_count |-> tfbs_count,
     predicted_tfbs_count |-> predicted_tfbs_count]

CountsSample == << CountsRow(TermX, 3, 2, 1), CountsRow(TermY, 2, 1, 1) >>

\* Hand-picked stores: three rows all named X; rows sharing coordinates;
\* an empty store.
SampleStores ==
    { [position |-> PositionTable(<< Interval(Chr1, 1, 2), Interval(Chr1, 2, 3),
                                     Interval(Chr2, 1, 3) >>),
       name |-> << NameRow(1, TermX, NULL), NameRow(2, TermX, NULL),
                   NameRow(3, TermX, TermY) >>,
       counts |-> << CountsRow(TermX, 3, 3, 0), CountsRow(TermY, 1, 0, 1) >>],
      [position |-> PositionTable(<< Interval(Chr1, 1, 3), Interval(Chr1, 1, 3),
                                     Interval(Chr1, 1, 2) >>),
       name |-> << NameRow(1, TermX, TermY), NameRow(2, TermY, TermX),
                   NameRow(2, NULL, TermY) >>,
       counts |-> CountsSample],
      [position |-> << >>, name |-> << >>, counts |-> << >>] }

IdFile(exists, rows) == [exists |-> exists, rows |-> rows, readable |-> TRUE]

\* <tissue>.csv of T lists the ids 1 and 3 and a row that is not a number;
\* U has no file.
CellLineFiles ==
    [k \in SearchSpecies \X {"T", "U"} |->
        IF k[2] = "T" THEN IdFile(TRUE, << << "1" >>, << "x" >>, << " ", "3" >> >>)
        ELSE IdFile(FALSE, << >>)]

\* The same with a file of T that holds no id.
CellLineFilesEmptyT ==
    [k \in SearchSpecies \X {"T", "U"} |->
        IF k[2] = "T" THEN IdFile(TRUE, << << "x" >> >>) ELSE IdFile(FALSE, << >>)]

SearchCountFiles ==
    [s \in SearchSpecies |->
        [NoCountFiles EXCEPT
            !.csv_exists = TRUE,
            !.csv_rows = << CsvRow("T", TermX, << >>, << "2" >>),
                            CsvRow("T", << >>, TermX, << "1" >>),
                            CsvRow("T", TermY, << >>, << "1" >>) >>]]

DigitStr(n) == << CHOOSE c \in DigitChars : DigitVal(c) = n >>

RegionQuery(seqnames, start, end) ==
    seqnames \o << "," >> \o DigitStr(start) \o << "," >> \o DigitStr(end)

Coordinates == 1..3

LocationQueries ==
    {Chr1, Chr2}
    \cup { RegionQuery(Chr1, s, e) : s \in Coordinates, e \in Coordinates }
    \cup { RegionQuery(Chr2, 1, 3) }

NameQueries == {TermX, TermY, TermZ}

\* (query, tfbs_type) of a request; the evidence type is varied for names.
SearchInputs ==
    { [query |-> q, tfbs_type |-> ""] : q \in LocationQueries \cup {<< >>} }
    \cup { [query |-> q, tfbs_type |-> t] :
             q \in NameQueries, t \in {"", "chip", "predicted", "other"} }

Windows ==
    { [start |-> 0, length |-> DefaultLength], [start |-> 0, length |-> 1],
      [start |-> 1, length |-> 1] }

ScanOrders(n) ==
    { f \in [1..n -> 1..n] : \A i, j \in 1..n : i # j => f[i] # f[j] }

Identity(n) == [i \in 1..n |-> i]

\* The orders in which the store may visit the position rows.
Scans ==
    IF settings.scan = None THEN ScanOrders(Len(TFBS_position))
    ELSE { settings.scan[1] }

\* What the environment may decide during a call.
Envs ==
    { [db_up |-> FALSE, scan |-> Identity(Len(TFBS_position)), pkl_write |-> "ok"] }
    \cup { [db_up |-> TRUE, scan |-> f, pkl_write |-> "ok"] : f \in Scans }

(***************************************************************************)
(* Actions: one per handler.                                               *)
(***************************************************************************)
ListRequest(input, species, cell_line, window, env) ==
    [op |-> "list", query |-> input.query, species |-> species,
     cell_line |-> cell_line, tfbs_type |-> input.tfbs_type,
     start |-> window.start, length |-> window.length, db_up |-> env.db_up]

\* TFBSViewSet.list for one request.
ListAnswer(input, species, cell_line, window, env) ==
    ApiAnswer("list", ListRequest(input, species, cell_line, window, env),
              QueryKind(input.query),
              IF input.query = << >> THEN NoSearch
              ELSE SingleSearch(World, env, species, input.query,
                                Paginated(window), cell_line,
                                TfbsTypeParam(input.tfbs_type)))

\* TFBSViewSet.list
TFBSViewSet_list ==
    /\ Idle
    /\ \E input \in SearchInputs, species \in SearchSpecies,
          cell_line \in CellLines, window \in Windows, env \in Envs :
          ListAnswer(input, species, cell_line, window, env)

DownloadRequest(input, species, cell_line, chromosome, env) ==
    [op |-> "download", query |-> input.query, species |-> species,
     cell_line |-> cell_line, tfbs_type |-> input.tfbs_type,
     chromosome |-> chromosome, db_up |-> env.db_up]

DownloadFiltered(req, kind, env, chromosome, r) ==
    CsvAnswer("download", req, kind, "exception", env, r,
              ChromosomeFilter(r.results, chromosome))

\* download_results for one request.
DownloadAnswer(input, species, cell_line, chromosome, env) ==
    DownloadFiltered(
        DownloadRequest(input, species, cell_line, chromosome, env),
        IF is_genomic_location(input.query) THEN "location" ELSE "name",
        env, chromosome,
        SingleSearch(World, env, species, input.query, NoPagination,
                     cell_line, TfbsTypeParam(input.tfbs_type)))

\* download_results
download_results ==
    /\ Idle
    /\ \E input \in SearchInputs, species \in SearchSpecies,
          cell_line \in CellLines, chromosome \in {<< >>, Chr1}, env \in Envs :
          DownloadAnswer(input, species, cell_line, chromosome, env)

\* What a browser may post to batch_search.
Upload(present, size, decodable, content) ==
    [present |-> present, size |-> size, decodable |-> decodable, content |-> content]

TextUpload(lines) == Upload(TRUE, Len(JoinLines(lines)), TRUE, JoinLines(lines))

Uploads ==
    { Upload(FALSE, 0, TRUE, << >>),
      Upload(TRUE, TenMiB + 1, TRUE, TermX),
      Upload(TRUE, 1, FALSE, << >>),
      TextUpload(<< << "#", "c" >> >>),
      TextUpload(<< TermX, RegionQuery(Chr1, 1, 3) >>),
      TextUpload(<< Chr1, RegionQuery(Chr2, 1, 3), RegionQuery(Chr1, 1, 2) >>),
      TextUpload(<< TermX, TermY, TermX >>),
      TextUpload(<< Chr1, Chr1 >>),
      TextUpload(<< RegionQuery(Chr1, 1, 3), Chr2 >>) }

\* Mutant: a file of exactly 1000 queries is turned away.
UploadMessage_off_by_one(file, queries) ==
    CASE ~file.present -> "No file uploaded"
      [] file.size > TenMiB -> "File size too large"
      [] ~file.decodable -> "Error processing file"
      [] Len(queries) = 0 -> "No valid search terms"
      [] Len(queries) >= MaxQueries -> "Too many search terms"
      [] OTHER -> ""

\* Mutant: the number of queries of a file is not limited.
UploadMessage_unlimited(file, queries) ==
    CASE ~file.present -> "No file uploaded"
      [] file.size > TenMiB -> "File size too large"
      [] ~file.decodable -> "Error processing file"
      [] Len(queries) = 0 -> "No valid search terms"
      [] OTHER -> ""

\* The message of batch_search for a file and the queries parsed from it;
\* "" when the upload is accepted.
UploadMessage(file, queries) ==
    CASE ~file.present -> "No file uploaded"
      [] file.size > TenMiB -> "File size too large"
      [] ~file.decodable -> "Error processing file"
      [] Len(queries) = 0 -> "No valid search terms"
      [] Len(queries) > MaxQueries -> "Too many search terms"
      [] OTHER -> ""

\* Mutant: an upload that is turned away clears the stored batch.
UploadAnswer_clears_on_rejection(file, message) ==
    /\ request' = [op |-> "upload", file |-> file]
    /\ response' = [op |-> "upload", accepted |-> message = "", message |-> message,
                    redirect |-> IF message = "" THEN "batch_results" ELSE "index"]
    /\ session' = IF message = "" THEN file.content ELSE << >>
    /\ UNCHANGED << storeVars, fileVars, cacheVars, auxVars >>

\* The redirect of batch_search with its message, the session written on
\* the accepting path alone.
UploadAnswer(file, message) ==
    /\ request' = [op |-> "upload", file |-> file]
    /\ response' = [op |-> "upload", accepted |-> message = "", message |-> message,
                    redirect |-> IF message = "" THEN "batch_results" ELSE "index"]
    /\ session' = IF message = "" THEN file.content ELSE session
    /\ UNCHANGED << storeVars, fileVars, cacheVars, auxVars >>

\* batch_search (POST) for one posted file.
UploadFile(file) ==
    UploadAnswer(file, UploadMessage(file, parse_batch_file(file.content)))

\* batch_search (POST)
batch_search ==
    /\ Idle
    /\ \E file \in Uploads : UploadFile(file)

\* A text file of n lines, each the term X.
LongUpload(n) ==
    Upload(TRUE, 2 * n - 1, TRUE,
           [i \in 1..(2 * n - 1) |-> IF i % 2 = 1 THEN "X" ELSE LF])

\* Posts at the limits of batch_search: a file of exactly 10 MiB, files of
\* 1000 and of 1001 queries, and every one-line file of the parser's lines.
BoundaryUploads ==
    Uploads
    \cup { Upload(TRUE, TenMiB, TRUE, TermX),
           LongUpload(MaxQueries), LongUpload(MaxQueries + 1) }
    \cup { TextUpload(<< line >>) : line \in BatchLines }

\* batch_search (POST), posts at the limits included.
batch_search_boundary ==
    /\ Idle
    /\ \E file \in BoundaryUploads : UploadFile(file)

BatchTypes == {"", "chip", "predicted", "other"}

BatchListRequest(species, cell_line, tfbs_type, window, env) ==
    [op |-> "batch_list", species |-> species, cell_line |-> cell_line,
     tfbs_type |-> tfbs_type, start |-> window.start, length |-> window.length,
     db_up |-> env.db_up]

\* BatchTFBSViewSet.list for one request.
BatchListAnswer(species, cell_line, tfbs_type, window, env) ==
    ApiAnswer("batch_list",
              BatchListRequest(species, cell_line, tfbs_type, window, env),
              IF session = << >> THEN "none" ELSE "batch",
              IF session = << >> THEN NoSearch
              ELSE BatchSearch(World, env, species, parse_batch_file(session),
                               Paginated(window), cell_line,
                               TfbsTypeParam(tfbs_type)))

\* BatchTFBSViewSet.list
BatchTFBSViewSet_list ==
    /\ Idle
    /\ \E species \in SearchSpecies, cell_line \in CellLines,
          tfbs_type \in BatchTypes, window \in Windows, env \in Envs :
          BatchListAnswer(species, cell_line, tfbs_type, window, env)

BatchDownloadRequest(species, cell_line, tfbs_type, env) ==
    [op |-> "batch_download", species |-> species, cell_line |-> cell_line,
     tfbs_type |-> tfbs_type, db_up |-> env.db_up]

BatchDownloadAnswer(req, env, r) ==
    CsvAnswer("batch_download", req, "batch", "server_error", env, r, r.results)

\* download_batch_results for one request.
BatchDownloadFor(species, cell_line, tfbs_type, env) ==
    IF session = << >>
    THEN Respond(BatchDownloadRequest(species, cell_line, tfbs_type, env),
                 SearchResponse("batch_download", "bad_request", "none",
                                NoSearch, << >>),
                 World)
    ELSE BatchDownloadAnswer(
             BatchDownloadRequest(species, cell_line, tfbs_type, env), env,
             BatchSearch(World, env, species, parse_batch_file(session),
                         NoPagination, cell_line, TfbsTypeParam(tfbs_type)))

\* download_batch_results
download_batch_results ==
    /\ Idle
    /\ \E species \in SearchSpecies, cell_line \in CellLines,
          tfbs_type \in BatchTypes, env \in Envs :
          BatchDownloadFor(species, cell_line, tfbs_type, env)

(***************************************************************************)
(* Specification of the single-query handlers over every small store.      *)
(***************************************************************************)
InitSearch ==
    /\ \E table \in PositionTables :
          /\ TFBS_position = table
          /\ TFBS_name = NamesFor(table)
    /\ tfbs_name_counts = CountsSample
    /\ cell_line_files = CellLineFiles
    /\ tf_count_files = SearchCountFiles
    /\ EmptyCaches
    /\ settings = DefaultSettings /\ Untracked
    /\ session = << >>
    /\ request = NoRequest
    /\ response = NoResponse

NextSearch == TFBSViewSet_list \/ download_results \/ Return

SpecSearch == InitSearch /\ [][NextSearch]_vars

(***************************************************************************)
(* Specification of all the handlers, over the hand-picked stores.         *)
(***************************************************************************)
Init ==
    /\ \E store \in SampleStores :
          /\ TFBS_position = store.position
          /\ TFBS_name = store.name
          /\ tfbs_name_counts = store.counts
    /\ cell_line_files \in {CellLineFiles, CellLineFilesEmptyT}
    /\ tf_count_files = SearchCountFiles
    /\ EmptyCaches
    /\ settings = DefaultSettings /\ Untracked
    /\ session = << >>
    /\ request = NoRequest
    /\ response = NoResponse

Next ==
    \/ TFBSViewSet_list
    \/ download_results
    \/ batch_search
    \/ BatchTFBSViewSet_list
    \/ download_batch_results
    \/ Return

Spec == Init /\ [][Next]_vars

(***************************************************************************)
(* Specification of the single-query handlers over a per-tissue file of T  *)
(* that exists and is of no use: it cannot be read (no permission, or      *)
(* bytes that are not UTF-8), or it has no ID column, so that every row    *)
(* reads as the empty string.                                              *)
(***************************************************************************)
UnreadableFile == [exists |-> TRUE, rows |-> << >>, readable |-> FALSE]

UselessTissueFiles ==
    { [k \in SearchSpecies \X {"T", "U"} |->
          IF k[2] = "T" THEN UnreadableFile ELSE IdFile(FALSE, << >>)],
      [k \in SearchSpecies \X {"T", "U"} |->
          IF k[2] = "T" THEN IdFile(TRUE, << << >>, << >> >>)
          ELSE IdFile(FALSE, << >>)] }

InitUnreadable ==
    /\ \E store \in SampleStores :
          /\ TFBS_position = store.position
          /\ TFBS_name = store.name
          /\ tfbs_name_counts = store.counts
    /\ cell_line_files \in UselessTissueFiles
    /\ tf_count_files = SearchCountFiles
    /\ EmptyCaches
    /\ settings = DefaultSettings /\ Untracked
    /\ session = << >>
    /\ request = NoRequest
    /\ response = NoResponse

NextUnreadable == TFBSViewSet_list \/ download_results \/ Return

SpecUnreadable == InitUnreadable /\ [][NextUnreadable]_vars

(***************************************************************************)
(* Specification of the session: uploads, accepted and turned away for    *)
(* each of the reasons batch_search knows, followed by batch requests.     *)
(***************************************************************************)
SessionUploads ==
    { Upload(FALSE, 0, TRUE, << >>),
      Upload(TRUE, TenMiB + 1, TRUE, TermX),
      Upload(TRUE, 1, FALSE, << >>),
      TextUpload(<< << "#", "c" >> >>),
      TextUpload(<< TermX, RegionQuery(Chr1, 1, 3) >>),
      TextUpload(<< TermY >>),
      LongUpload(MaxQueries + 1) }

\* batch_search (POST) with one of these files.
batch_search_session ==
    /\ Idle
    /\ \E file \in SessionUploads : UploadFile(file)

InitSession ==
    /\ \E store \in SampleStores :
          /\ TFBS_position = store.position
          /\ TFBS_name = store.name
          /\ tfbs_name_counts = store.counts
    /\ cell_line_files = CellLineFiles
    /\ tf_count_files = SearchCountFiles
    /\ EmptyCaches
    /\ settings = DefaultSettings /\ Untracked
    /\ session = << >>
    /\ request = NoRequest
    /\ response = NoResponse

NextSession ==
    \/ batch_search_session
    \/ BatchTFBSViewSet_list
    \/ download_batch_results
    \/ Return

SpecSession == InitSession /\ [][NextSession]_vars

(***************************************************************************)
(* Specification of the limits of the session: the posts at the limits of  *)
(* batch_search, the files of 1000 and of 1001 queries among them,         *)
(* followed by batch requests, over a store without a row.                 *)
(***************************************************************************)
InitLimits ==
    /\ EmptyStore
    /\ cell_line_files = CellLineFiles
    /\ tf_count_files = SearchCountFiles
    /\ EmptyCaches
    /\ settings = DefaultSettings /\ Untracked
    /\ session = << >>
    /\ request = NoRequest
    /\ response = NoResponse

NextLimits ==
    \/ batch_search_boundary
    \/ BatchTFBSViewSet_list
    \/ download_batch_results
    \/ Return

SpecLimits == InitLimits /\ [][NextLimits]_vars

(***************************************************************************)
(* Specification of the upload handler alone.                              *)
(***************************************************************************)
InitUpload ==
    /\ EmptyStore /\ EmptyFiles /\ EmptyCaches
    /\ settings = DefaultSettings /\ Untracked
    /\ session = << >>
    /\ request = NoRequest
    /\ response = NoResponse

NextUpload == batch_search_boundary \/ Return

SpecUpload == InitUpload /\ [][NextUpload]_vars

(***************************************************************************)
(* Specification of all the handlers with DEBUG on or off.                 *)
(***************************************************************************)
InitSettings ==
    /\ \E store \in SampleStores :
          /\ TFBS_position = store.position
          /\ TFBS_name = store.name
          /\ tfbs_name_counts = store.counts
    /\ cell_line_files = CellLineFiles
    /\ tf_count_files = SearchCountFiles
    /\ EmptyCaches
    /\ \E debug \in BOOLEAN : settings = [DEBUG |-> debug, scan |-> None]
    /\ Untracked
    /\ session = << >>
    /\ request = NoRequest
    /\ response = NoResponse

SpecSettings == InitSettings /\ [][Next]_vars

(***************************************************************************)
(* Specification of a client that sends its search again: the handlers of  *)
(* Spec, the request answered last being remembered, over a store that     *)
(* visits its rows in one fixed order while nothing is written to it.      *)
(***************************************************************************)
Reversed(n) == [i \in 1..n |-> n + 1 - i]

\* The handler has answered; the request and its answer are remembered.
\* first: it was the first search of the process (the caches were cold).
ReturnRemembered ==
    /\ ~Idle
    /\ previous' = [request |-> request, response |-> response,
                    first |-> previous.request.op \in {"none", "upload"}]
    /\ request' = NoRequest
    /\ response' = NoResponse
    /\ UNCHANGED << storeVars, fileVars, cacheVars, session, settings, threads >>

\* The client has sent a search before.
Repeating == previous.request.op \notin {"none", "upload"}

\* The handler of the request q, for the request q.
HandlerAnswer(q, env) ==
    CASE q.op = "list" ->
            ListAnswer([query |-> q.query, tfbs_type |-> q.tfbs_type], q.species,
                       q.cell_line, [start |-> q.start, length |-> q.length], env)
      [] q.op = "download" ->
            DownloadAnswer([query |-> q.query, tfbs_type |-> q.tfbs_type],
                           q.species, q.cell_line, q.chromosome, env)
      [] q.op = "batch_list" ->
            BatchListAnswer(q.species, q.cell_line, q.tfbs_type,
                            [start |-> q.start, length |-> q.length], env)
      [] q.op = "batch_download" ->
            BatchDownloadFor(q.species, q.cell_line, q.tfbs_type, env)

\* The client sends the search it sent last, while the store is as it was.
SendAgain ==
    /\ Idle /\ Repeating
    /\ \E env \in Envs :
          /\ env.db_up = previous.request.db_up
          /\ HandlerAnswer(previous.request, env)

\* The count files: a CSV file alone, or with a pickle that is not older
\* and holds another mapping.
RepeatCountFiles ==
    { f \in CacheCountFileStates :
        f.csv_exists /\ (f.pkl_exists => f.pkl_ok /\ f.pkl_mtime >= f.csv_mtime) }

InitRepeat ==
    /\ \E store \in SampleStores :
          /\ TFBS_position = store.position
          /\ TFBS_name = store.name
          /\ tfbs_name_counts = store.counts
    /\ cell_line_files = CellLineFiles
    /\ \E f \in RepeatCountFiles : tf_count_files = [s \in SearchSpecies |-> f]
    /\ EmptyCaches
    /\ \E f \in {Identity(Len(TFBS_position)), Reversed(Len(TFBS_position))} :
          settings = [DEBUG |-> FALSE, scan |-> << f >>]
    /\ Untracked
    /\ session = << >>
    /\ request = NoRequest
    /\ response = NoResponse

NextRepeat ==
    \/ ~Repeating /\ TFBSViewSet_list
    \/ ~Repeating /\ download_results
    \/ ~Repeating /\ batch_search
    \/ ~Repeating /\ BatchTFBSViewSet_list
    \/ ~Repeating /\ download_batch_results
    \/ SendAgain
    \/ ReturnRemembered

SpecRepeat == InitRepeat /\ [][NextRepeat]_vars

(***************************************************************************)
(* Forms a query can have, stated on the comma-delimited fields of the     *)
(* string (used by the properties, not by the handlers).                   *)
(***************************************************************************)
IsDigits(s) == Len(s) > 0 /\ \A i \in 1..Len(s) : IsDigit(s[i])

IsChrDigits(s) == HasChrPrefix(s) /\ IsDigits(SubSeq(s, 4, Len(s)))

HasLocationForm(q) ==
    LET parts == Split(q, ",")
    IN \/ Len(parts) = 1 /\ IsChrDigits(parts[1])
       \/ /\ Len(parts) = 3
          /\ IsChrDigits(parts[1]) /\ IsDigits(parts[2]) /\ IsDigits(parts[3])

IsTrimmed(q) == Strip(q) = q

IsOptNat(v) == v = None \/ (Len(v) = 1 /\ v[1] \in Nat)

\* C4: a non-empty trimmed query is classified as a location query exactly
\* when it has the form chr<digits> or chr<digits>,<digits>,<digits>; every
\* other non-empty trimmed query is a name query whose term is the query
\* unchanged.
C4_ClassifiedByForm ==
    (response.op = "classify" /\ Len(request.query) > 0 /\ IsTrimmed(request.query))
    => /\ (response.classified.kind = "location") <=> HasLocationForm(request.query)
       /\ ~HasLocationForm(request.query)
            => /\ response.classified.kind = "name"
               /\ response.classified.term = request.query

\* The malformed location chrX,1, was classified and became a name query.
C4_Witness ==
    /\ response.op = "classify"
    /\ request.query = << "c", "h", "r", "X", ",", "1", "," >>
    /\ response.classified.kind = "name"

BomStripped(raw) ==
    LET t == Strip(raw) IN IF StartsWith(t, BOM) THEN Strip(Tail0(t)) ELSE t

\* Blank, or a comment, judged on the trimmed line as it stands.
BlankOrComment(raw) == Strip(raw) = << >> \/ StartsWith(Strip(raw), "#")

\* Blank, or a comment, judged once the line's byte-order mark is stripped.
BlankOrCommentAfterBom(raw) ==
    BomStripped(raw) = << >> \/ StartsWith(BomStripped(raw), "#")

\* The line after trimming and stripping trailing commas.
Cleaned(raw) == RStripCommas(BomStripped(raw))

\* The first comma-delimited field of a string holding a comma, trimmed.
FirstField(u) ==
    LET k == CHOOSE i \in 1..Len(u) : u[i] = "," /\ \A j \in 1..(i - 1) : u[j] # ","
    IN Strip(SubSeq(u, 1, k - 1))

\* The query a kept line stands for.
RuleQuery(raw) ==
    LET u == Cleaned(raw)
    IN IF HasLocationForm(u) THEN u
       ELSE IF Contains(u, ",") THEN FirstField(u)
       ELSE u

\* The queries of a list of lines, in line order, repeats included.  A line
\* is kept when it is neither blank nor a comment and something is left of
\* it after cleaning.  bomFirst: the blank / comment judgement is made after
\* the line's byte-order mark is stripped.  dropEmpty: a line whose query is
\* the empty string yields no query.
RECURSIVE ExpectedQueries(_, _, _)
ExpectedQueries(lines, bomFirst, dropEmpty) ==
    IF Len(lines) = 0 THEN << >>
    ELSE LET raw == lines[1]
             skipped == IF bomFirst THEN BlankOrCommentAfterBom(raw)
                        ELSE BlankOrComment(raw)
             kept == /\ ~skipped
                     /\ Cleaned(raw) # << >>
                     /\ dropEmpty => RuleQuery(raw) # << >>
         IN (IF kept THEN << RuleQuery(raw) >> ELSE << >>)
            \o ExpectedQueries(Tail0(lines), bomFirst, dropEmpty)

\* The lines of an upload: the text after its leading byte-order mark.
UploadLines(content) == Split(StripLeadingBom(content), LF)

\* C6 (as amended): parse_batch_file returns, in input line order and without
\* removing repeats, one query per kept line: a location pattern is kept
\* whole, a line that still holds a comma and is no location pattern is
\* reduced to its trimmed first comma-delimited field and yields nothing
\* when that field is empty, any other line is kept whole.
C6_OneQueryPerKeptLine ==
    response.op = "parse"
    => response.queries = ExpectedQueries(UploadLines(request.content), FALSE, TRUE)

\* A CSV line followed by a location with a trailing comma was parsed.
C6_Witness ==
    /\ response.op = "parse"
    /\ request.content = << "A", ",", "B", ",", "C", LF,
                            "c", "h", "r", "2", ",", "1", ",", "2", "," >>
    /\ response.queries = << << "A" >>,
                             << "c", "h", "r", "2", ",", "1", ",", "2" >> >>

\* C6 as first stated: every kept line yields exactly one query, a comma
\* line always being reduced to its first field.
C6_Original_EveryKeptLineYieldsAQuery ==
    response.op = "parse"
    => response.queries = ExpectedQueries(UploadLines(request.content), FALSE, FALSE)

\* C7: no query is emitted for a line that is blank or starts with '#' once
\* the byte-order mark at the start of that line is stripped, on every line.
C7_NoQueryForBlankOrCommentLines ==
    response.op = "parse"
    => response.queries = ExpectedQueries(UploadLines(request.content), TRUE, TRUE)

(***************************************************************************)
(* Count lookup.                                                           *)
(***************************************************************************)
\* C10: get_tf_count_from_csv returns the counter of the (tissue, term)
\* entry of the species mapping that the filter selects (all -> total,
\* chip -> confirmed, predicted -> predicted), and 0 when the mapping has no
\* entry for (tissue, term).
C10_CountSelectedByFilter ==
    (response.op = "count" /\ request.tfbs_type \in {"all", "chip", "predicted"})
    => LET mapping == _tf_count_cache[request.species]
           key == << request.cell_tissue, request.tf_name >>
       IN /\ key \notin DOMAIN mapping => response.count = 0
          /\ key \in DOMAIN mapping =>
                /\ request.tfbs_type = "all" => response.count = mapping[key].all
                /\ request.tfbs_type = "chip" => response.count = mapping[key].chip
                /\ request.tfbs_type = "predicted" =>
                      response.count = mapping[key].predicted

\* The confirmed counter of an entry whose three counters differ was
\* returned.
C10_Witness ==
    /\ response.op = "count"
    /\ request.tfbs_type = "chip"
    /\ response.count = 2
    /\ << request.cell_tissue, request.tf_name >> \in DOMAIN _tf_count_cache[request.species]
    /\ _tf_count_cache[request.species][<< request.cell_tissue, request.tf_name >>]
         = [all |-> 3, chip |-> 2, predicted |-> 1]

(***************************************************************************)
(* Search results.                                                         *)
(***************************************************************************)
Coordinate(row) == << row.seqnames, row.start, row.end >>

NoDuplicateCoordinates(rows) ==
    \A i, j \in DOMAIN rows : i # j => Coordinate(rows[i]) # Coordinate(rows[j])

\* The rows of a list whose coordinate no earlier row of the list has.
FirstOccurrences(rows) ==
    LET kept == { i \in DOMAIN rows :
                    \A j \in 1..(i - 1) : Coordinate(rows[j]) # Coordinate(rows[i]) }
    IN SelectSeq([i \in DOMAIN rows |-> [at |-> i, row |-> rows[i]]],
                 LAMBDA e : e.at \in kept)

RowsOf(entries) == [i \in DOMAIN entries |-> entries[i].row]

SingleOps == {"list", "download"}
BatchOps == {"batch_list", "batch_download"}

\* C1: the page of a batch search holds no two rows of the same
\* (seqnames, start, end).
C1_BatchPageHasNoDuplicates ==
    (response.op = "batch_list" /\ response.status = "ok")
    => NoDuplicateCoordinates(response.data)

\* C2: the rows a single-query search returns are the first occurrences, in
\* fetch order, of the coordinates of the rows fetched (of which the download
\* keeps those of the chromosome asked for), so no coordinate occurs twice.
C2_SingleSearchKeepsFirstOfEachCoordinate ==
    (response.op \in SingleOps /\ response.status = "ok")
    => /\ NoDuplicateCoordinates(response.data)
       /\ LET first == RowsOf(FirstOccurrences(response.raw))
          IN IF request.op = "download" /\ request.chromosome # << >>
             THEN response.data
                    = SelectSeq(first, LAMBDA row : row.seqnames = request.chromosome)
             ELSE response.data = first

\* A name search fetched two rows of one coordinate, id 2 before id 1, and
\* returned the row of id 2 alone.
C2_Witness ==
    /\ response.op = "list" /\ response.status = "ok" /\ response.kind = "name"
    /\ Len(response.raw) = 2
    /\ response.raw[1].ID = 2 /\ response.raw[2].ID = 1
    /\ Coordinate(response.raw[1]) = Coordinate(response.raw[2])
    /\ response.data = << response.raw[1] >>

\* The ids of the per-tissue file, none when there is no file.
TissueIds(species, cell_line) ==
    LET file == cell_line_files[<< species, cell_line >>]
    IN IF file.exists THEN Range(ReadIds(file.rows)) ELSE {}

SearchedBatch == request.op \in BatchOps /\ session # << >>
SearchedSingle == request.op \in SingleOps

\* C3: a search (single or batch, location or name) with a tissue whose
\* allow-list is empty answers without error, with no rows, total 0, and
\* without any store operation.
C3_EmptyAllowListShortCircuits ==
    ((SearchedSingle \/ SearchedBatch)
       /\ request.cell_line # ""
       /\ TissueIds(request.species, request.cell_line) = {})
    => /\ response.status = "ok"
       /\ response.data = << >>
       /\ response.recordsTotal = 0
       /\ response.count = 0
       /\ response.store_ops = 0

\* A batch of a name and a region was searched for the tissue without file
\* while the store could not be used, and the answer was the empty page.
C3_Witness ==
    /\ request.op = "batch_list" /\ request.cell_line = "U" /\ ~request.db_up
    /\ ~cell_line_files[<< request.species, "U" >>].exists
    /\ session = JoinLines(<< TermX, RegionQuery(Chr1, 1, 3) >>)
    /\ Len(TFBS_position) > 0
    /\ response.status = "ok" /\ response.data = << >>

\* The fields of a location query.
QueryChromosome(query) == Split(query, ",")[1]
QueryIsRegion(query) == Len(Split(query, ",")) = 3
QueryStart(query) == DecimalValue(Split(query, ",")[2], 0)
QueryEnd(query) == DecimalValue(Split(query, ",")[3], 0)

\* The indexes of the position records a location request matches.
Matching(req) ==
    { i \in DOMAIN TFBS_position :
        LET p == TFBS_position[i]
        IN /\ p.seqnames = QueryChromosome(req.query)
           /\ QueryIsRegion(req.query)
                => (p.start >= QueryStart(req.query) /\ p.end <= QueryEnd(req.query))
           /\ req.cell_line # "" => p.ID \in TissueIds(req.species, req.cell_line) }

Max(a, b) == IF a >= b THEN a ELSE b

\* C8: for a location query the count is the number of matching records
\* whatever the window, and the rows fetched are matching records, each once,
\* in ascending start order, standing at the positions offset+1.. of that
\* order: as many as the window holds, all of them without a window.
C8_LocationCountAndRows ==
    (response.op \in SingleOps /\ response.kind = "location"
       /\ response.status = "ok")
    => LET match == Matching(request)
           n == Cardinality(match)
           raw == response.raw
           offset == IF request.op = "list" THEN request.start ELSE 0
       IN /\ response.count = n
          /\ request.op = "list" => response.recordsTotal = n
          /\ Len(raw) = (IF request.op = "list"
                         THEN Min(request.length, Max(0, n - offset)) ELSE n)
          /\ \A k \in DOMAIN raw : \E i \in match : raw[k] = TFBS_position[i]
          /\ \A k, m \in DOMAIN raw :
                k < m => (raw[k].start <= raw[m].start /\ raw[k].ID # raw[m].ID)
          /\ \A k \in DOMAIN raw :
                /\ Cardinality({ i \in match :
                       TFBS_position[i].start < raw[k].start }) <= offset + k - 1
                /\ Cardinality({ i \in match :
                       TFBS_position[i].start <= raw[k].start }) >= offset + k

\* A paginated region search fetched one row while the store held a record
\* of the chromosome that overlaps the region without lying inside it.
C8_Witness ==
    /\ response.op = "list" /\ response.kind = "location" /\ response.status = "ok"
    /\ QueryIsRegion(request.query)
    /\ Len(response.raw) = 1
    /\ \E i \in DOMAIN TFBS_position :
          LET p == TFBS_position[i]
          IN /\ p.seqnames = QueryChromosome(request.query)
             /\ p.start <= QueryEnd(request.query)
             /\ p.end >= QueryStart(request.query)
             /\ i \notin Matching(request)

\* A region query whose start is greater than its end.
IsReversedRegion(query) ==
    /\ HasLocationForm(query)
    /\ QueryIsRegion(query)
    /\ QueryStart(query) > QueryEnd(query)

\* C9: over a store whose records all have start < end, and which can be
\* used, a region search with start > end is run as a location search and
\* answers without error, with no rows and total 0.
C9_ReversedRegionIsEmpty ==
    (request.op \in SingleOps /\ request.db_up /\ IsReversedRegion(request.query)
       /\ \A i \in DOMAIN TFBS_position :
             TFBS_position[i].start < TFBS_position[i].end)
    => /\ response.kind = "location"
       /\ response.status = "ok"
       /\ response.data = << >>
       /\ response.recordsTotal = 0
       /\ response.count = 0

\* chr1,2,1 was searched without tissue over a store holding a chr1 record
\* that starts at 2.
C9_Witness ==
    /\ request.op = "list" /\ request.db_up /\ request.cell_line = ""
    /\ request.query = RegionQuery(Chr1, 2, 1)
    /\ \E i \in DOMAIN TFBS_position :
          TFBS_position[i].seqnames = Chr1 /\ TFBS_position[i].start >= 2
    /\ response.status = "ok" /\ response.data = << >>

(***************************************************************************)
(* The caches.                                                             *)
(***************************************************************************)
\* C11: what load_tf_count_data returns for a species is what the memory
\* holds for it from then on, and a call for a species the memory already
\* holds returns that very mapping, parses no CSV file, opens neither the
\* pickle nor the CSV file, and leaves the files alone: of two consecutive
\* calls the second is answered from memory and the CSV file is parsed at
\* most once.
C11_SecondLoadFromMemory ==
    [][response'.op = "load_counts"
       => /\ request'.species \in DOMAIN _tf_count_cache'
          /\ _tf_count_cache'[request'.species] = response'.mapping
          /\ request'.species \in DOMAIN _tf_count_cache
                => /\ response'.mapping = _tf_count_cache[request'.species]
                   /\ ~response'.parsed
                   /\ response'.opened = {}
                   /\ tf_count_files' = tf_count_files]_vars

\* A call was answered from memory with a mapping that an earlier call of
\* this process parsed from the CSV file and wrote to the pickle.
C11_Witness ==
    /\ response.op = "load_counts" /\ request.species = "human"
    /\ ~response.parsed /\ response.opened = {}
    /\ response.mapping # << >>
    /\ tf_count_files["human"].pkl_ok
    /\ tf_count_files["human"].pkl_mtime = 2
    /\ tf_count_files["human"].pkl_mapping = response.mapping

\* C12: an entry of the allow-list cache is never removed or replaced; what
\* load_cell_line_ids returns for a key is the entry of that key from then
\* on; and a call for a key the cache holds returns the entry without
\* opening the file, so each per-tissue file is read at most once.
C12_CachedIdsAreKept ==
    [][/\ \A k \in DOMAIN _cell_line_ids_cache :
             /\ k \in DOMAIN _cell_line_ids_cache'
             /\ _cell_line_ids_cache'[k] = _cell_line_ids_cache[k]
       /\ response'.op = "load_ids"
            => LET k == << request'.species, request'.cell_tissue >>
               IN /\ k \in DOMAIN _cell_line_ids_cache'
                  /\ _cell_line_ids_cache'[k] = response'.ids
                  /\ k \in DOMAIN _cell_line_ids_cache
                        => /\ response'.ids = _cell_line_ids_cache[k]
                           /\ ~response'.read]_vars

\* The tissue U had no file when it was first asked for; the file exists
\* now and lists an id, and the call still returned the empty list without
\* opening it.
C12_Witness ==
    /\ response.op = "load_ids" /\ request.cell_tissue = "U"
    /\ response.ids = << >> /\ ~response.read
    /\ cell_line_files[<< request.species, "U" >>].exists
    /\ ReadIds(cell_line_files[<< request.species, "U" >>].rows) # << >>

(***************************************************************************)
(* Repeated searches.                                                      *)
(***************************************************************************)
SearchOps == SingleOps \cup BatchOps

NeedsStore(req) ==
    /\ req.op \in SingleOps => req.query # << >>
    /\ req.op \in BatchOps => session # << >> /\ parse_batch_file(session) # << >>
    /\ req.cell_line # "" => TissueIds(req.species, req.cell_line) # {}

\* C14: a search (single or batch, list or download) that has to go to the
\* store while the store cannot be used is answered with a failure that
\* carries a message, never with a page; a page carries no message and no
\* details; the traceback is sent under DEBUG alone.
C14_StoreFailureIsSurfaced ==
    request.op \in SearchOps
    => /\ (NeedsStore(request) /\ ~request.db_up)
            => /\ response.status \in {"error", "exception", "server_error"}
               /\ response.error # ""
       /\ response.status = "ok" => (response.error = "" /\ response.details = "")
       /\ response.details = "traceback" => settings.DEBUG

\* With DEBUG off a stored batch was searched while the store could not be
\* used: the payload has the message and, for details, the pointer to the
\* logs.
C14_Witness ==
    /\ request.op = "batch_list" /\ ~request.db_up /\ ~settings.DEBUG
    /\ NeedsStore(request)
    /\ response.status = "error" /\ response.error # ""
    /\ response.details = "See server logs for details"
    /\ response.data = << >> /\ response.recordsTotal = 0

(***************************************************************************)
(* Uploads.                                                                *)
(***************************************************************************)
\* C15: an upload is accepted exactly when a file is present, its size is
\* at most 10 MiB, it can be read, and parsing it yields between 1 and 1000
\* queries; an accepted upload stores the content for batch processing and
\* sends the user to the results page; any other upload is turned away
\* with a message, leaves the stored batch as it was, and in neither case is
\* a search run (no cache is filled, no file written).
C15_UploadAcceptedWithinLimits ==
    [][request'.op = "upload"
       => LET file == request'.file
              acceptable ==
                  /\ file.present
                  /\ file.size <= 10 * 1024 * 1024
                  /\ file.decodable
                  /\ Len(parse_batch_file(file.content)) \in 1..1000
          IN /\ response'.accepted <=> acceptable
             /\ response'.accepted
                  => /\ session' = file.content
                     /\ response'.redirect = "batch_results"
                     /\ response'.message = ""
             /\ ~response'.accepted
                  => /\ session' = session
                     /\ response'.redirect = "index"
                     /\ response'.message # ""
             /\ UNCHANGED << storeVars, fileVars, cacheVars >>]_vars

\* A file of 1001 queries was turned away while an earlier batch was stored.
C15_Witness ==
    /\ request.op = "upload" /\ ~response.accepted
    /\ request.file.present /\ request.file.decodable
    /\ Len(parse_batch_file(request.file.content)) = 1001
    /\ response.message = "Too many search terms"
    /\ session # << >> /\ session # request.file.content

(***************************************************************************)
(* Batch results.                                                          *)
(***************************************************************************)
\* A store that can be used and visits its rows in the order f.
UsableStore(f) == [db_up |-> TRUE, scan |-> f, pkl_write |-> "ok"]

\* Every row of the stored batch, fetched without a window: the rows of the
\* names, then the rows of the locations.
AllBatchRows(req, f) ==
    BatchSearch(World, UsableStore(f), req.species, parse_batch_file(session),
                NoPagination, req.cell_line, TfbsTypeParam(req.tfbs_type)).raw

\* C16: the page of a batch search is the window (start, length) of the
\* concatenation of all name rows and all location rows, deduplicated by
\* coordinate afterwards; so it never holds more than `length` rows.
C16_BatchPageIsOneWindow ==
    (response.op = "batch_list" /\ response.status = "ok" /\ session # << >>)
    => /\ Len(response.data) <= request.length
       /\ \E f \in ScanOrders(Len(TFBS_position)) :
             response.data
               = DedupByCoordinate(OffsetLimit(AllBatchRows(request, f),
                                               request.start, request.length))

\* The queries of the stored batch that are names, and those that are locations.
BatchNames == SelectSeq(parse_batch_file(session), LAMBDA q : ~is_genomic_location(q))
BatchLocationQueries ==
    SelectSeq(parse_batch_file(session), LAMBDA q : is_genomic_location(q))

\* A request with a tissue whose allow-list is empty is answered before any
\* count is taken (C3).
TissueHasIds(req) ==
    req.cell_line # "" => TissueIds(req.species, req.cell_line) # {}

\* The count of one name term under the filters of the request: the count of
\* the tissue's count file with a tissue, the aggregate of the store without.
TermTotal(req, term) ==
    IF req.cell_line # ""
    THEN get_tf_count_from_csv(_tf_count_cache, tf_count_files, req.species,
                               req.cell_line, term, TfbsTypeParam(req.tfbs_type),
                               "ok").count
    ELSE AggregateCount(tfbs_name_counts, term, TfbsTypeParam(req.tfbs_type))

RECURSIVE SumOfTerms(_, _)
SumOfTerms(req, terms) ==
    IF terms = {} THEN 0
    ELSE LET term == CHOOSE t \in terms : TRUE
         IN TermTotal(req, term) + SumOfTerms(req, terms \ {term})

RECURSIVE SumOfTermList(_, _)
SumOfTermList(req, terms) ==
    IF Len(terms) = 0 THEN 0
    ELSE TermTotal(req, terms[1]) + SumOfTermList(req, Tail0(terms))

\* The number of records one location query matches under the request's tissue.
LocationTotal(req, query) ==
    Cardinality(Matching([query |-> query, species |-> req.species,
                          cell_line |-> req.cell_line]))

RECURSIVE SumOfLocations(_, _)
SumOfLocations(req, locations) ==
    IF Len(locations) = 0 THEN 0
    ELSE LocationTotal(req, locations[1]) + SumOfLocations(req, Tail0(locations))

\* C17: the total of a batch search is the sum of the counts of its name
\* terms (a repeated term taken once, or once per occurrence) plus, for every
\* location query of the input, once per occurrence, the number of records
\* that query matches.
C17_BatchTotalIsSumOfQueryTotals ==
    (response.op = "batch_list" /\ response.status = "ok" /\ session # << >>
       /\ request.tfbs_type \in {"", "chip", "predicted"}
       /\ TissueHasIds(request))
    => response.recordsTotal - SumOfLocations(request, BatchLocationQueries)
         \in { SumOfTerms(request, Range(BatchNames)),
               SumOfTermList(request, BatchNames) }

\* The queries with every name term kept where it first occurs; location
\* queries are all kept.
RECURSIVE OnceEach(_)
OnceEach(queries) ==
    IF Len(queries) = 0 THEN << >>
    ELSE IF /\ ~is_genomic_location(queries[Len(queries)])
            /\ queries[Len(queries)] \in Range(Front0(queries))
         THEN OnceEach(Front0(queries))
         ELSE Append(OnceEach(Front0(queries)), queries[Len(queries)])

\* The window of a batch request: none for the download.
RequestPaging(req) ==
    IF req.op = "batch_list"
    THEN Paginated([start |-> req.start, length |-> req.length])
    ELSE NoPagination

\* What the batch search returns for the given queries under the filters and
\* the window of the request, the store visiting its rows in the order f.
BatchAnswerFor(req, queries, f) ==
    BatchSearch(World, UsableStore(f), req.species, queries, RequestPaging(req),
                req.cell_line, TfbsTypeParam(req.tfbs_type))

\* C18: a batch in which a name term is repeated has the total and the rows
\* of the batch in which every name term appears once, with or without a
\* tissue.
C18_RepeatedNameTermsCountOnce ==
    (response.op \in BatchOps /\ response.status = "ok" /\ session # << >>)
    => \E f \in ScanOrders(Len(TFBS_position)) :
          /\ response.count
               = BatchAnswerFor(request, OnceEach(parse_batch_file(session)), f).count
          /\ response.raw
               = BatchAnswerFor(request, OnceEach(parse_batch_file(session)), f).raw

\* The chromosome and the start of every row.
RowKeys(rows) == [i \in 1..Len(rows) |-> << rows[i].seqnames, rows[i].start >>]

\* The allow-list of the request: ids of the tissue's file, or no filter.
RequestAllowed(req) == ResolveAllowed(World, req.species, req.cell_line).allowed_ids

\* The rows one location query matches, by ascending start.
RowsOfLocation(req, location) ==
    LocationSelect(TFBS_position, location.chromosome, location.start,
                   location.end, RequestAllowed(req))

\* The rows of the location queries, query after query in input order.
RECURSIVE RowsInInputOrder(_, _)
RowsInInputOrder(req, locations) ==
    IF Len(locations) = 0 THEN << >>
    ELSE RowsInInputOrder(req, Front0(locations))
         \o RowsOfLocation(req, locations[Len(locations)])

\* Whether the rows are name matches followed by the expected location rows.
NamesThenLocations(req, rows, expected) ==
    /\ Len(rows) >= Len(expected)
    /\ RowKeys(SubSeq(rows, Len(rows) - Len(expected) + 1, Len(rows)))
         = RowKeys(expected)
    /\ \A i \in 1..(Len(rows) - Len(expected)) :
          rows[i] \in Range(NameSelect(TFBS_position, TFBS_name, BatchNames,
                                       TfbsTypeParam(req.tfbs_type),
                                       RequestAllowed(req)))

\* C19: the rows of a batch result are the rows of the names, then the rows
\* of the location queries grouped by query in the order of the input,
\* whether a query is a chromosome or a region (stated where every row is
\* fetched: the download, and the first page when it holds them all; and for
\* batches that repeat no location query).
C19_LocationRowsInInputOrder ==
    (response.op \in BatchOps /\ response.status = "ok" /\ session # << >>
       /\ Cardinality(Range(BatchLocationQueries)) = Len(BatchLocationQueries)
       /\ (request.op = "batch_list"
             => request.start = 0 /\ request.length = DefaultLength))
    => NamesThenLocations(request, response.raw,
                          RowsInInputOrder(request,
                                           ParsedLocations(BatchLocationQueries)))

\* C20: whatever the number of threads that call load_cell_line_ids or
\* load_tf_count_data for a key that is not cached, the backing files are
\* read and the value of the key is built at most once.
C20_BuiltAtMostOncePerKey ==
    \A key \in DOMAIN threads.builds : threads.builds[key] <= 1

\* The list load_cell_line_ids has to return for a key: every id of the
\* tissue's file, none without a tissue or a file.
CompleteIds(key) ==
    IF key[2] # "" /\ cell_line_files[key].exists
    THEN ReadIds(cell_line_files[key].rows)
    ELSE << >>

\* The mappings load_tf_count_data may return for a species: the parse of the
\* whole CSV file, or the mapping of a pickle that is decodable and not older
\* than the CSV file.
CompleteCounts(species) ==
    { IF tf_count_files[species].csv_exists
      THEN ParseCountCsv(tf_count_files[species].csv_rows) ELSE << >> }
    \cup { tf_count_files[species].pkl_mapping :
             x \in { y \in {1} :
                       /\ tf_count_files[species].pkl_exists
                       /\ tf_count_files[species].pkl_ok
                       /\ tf_count_files[species].pkl_mtime
                            >= (IF tf_count_files[species].csv_exists
                                THEN tf_count_files[species].csv_mtime ELSE 0) } }

CompleteValue(fn, key, value) ==
    IF fn = "load_cell_line_ids" THEN value = CompleteIds(key)
    ELSE value \in CompleteCounts(key[1])

\* C21: under every interleaving of the threads, a value a thread gets from
\* either cache, and every value stored in either cache, is the complete
\* value of its key, never one that is still being filled.
C21_ReadersGetCompleteEntries ==
    /\ \A t \in ThreadIds :
          threads.at[t].pc = "returning"
          => CompleteValue(threads.at[t].fn, threads.at[t].key, threads.at[t].value)
    /\ \A key \in DOMAIN _cell_line_ids_cache :
          _cell_line_ids_cache[key] = CompleteIds(key)
    /\ \A species \in DOMAIN _tf_count_cache :
          _tf_count_cache[species] \in CompleteCounts(species)

\* A thread is handed a cached list of ids while another thread, past its
\* own miss for the same key, has not stored yet.
C21_Witness ==
    \E t, u \in ThreadIds :
        /\ t # u
        /\ threads.at[t].pc = "returning"
        /\ threads.at[t].key \in DOMAIN _cell_line_ids_cache
        /\ threads.at[t].value # << >>
        /\ threads.at[u].key = threads.at[t].key
        /\ threads.at[u].pc \in {"missed", "built"}
        /\ threads.builds[threads.at[t].key] = 1

(***************************************************************************)
(* The count files.                                                        *)
(***************************************************************************)
\* The modification time the pickle is compared with.
SourceMtime(file) == IF file.csv_exists THEN file.csv_mtime ELSE 0

\* The pickle exists and is not older than the CSV file.
FreshPickle(file) == file.pkl_exists /\ file.pkl_mtime >= SourceMtime(file)

\* The mapping of the CSV file, empty without one.
SourceMapping(file) ==
    IF file.csv_exists THEN ParseCountCsv(file.csv_rows) ELSE << >>

\* The order of C22 for an answer to a call that found the memory `cache`
\* and the files `file` of the species.
ResolvedInOrder(species, cache, file, answer) ==
    IF species \in DOMAIN cache
    THEN /\ answer.mapping = cache[species]
         /\ answer.opened = {}
         /\ ~answer.parsed
    ELSE IF FreshPickle(file) /\ file.pkl_ok
    THEN /\ answer.mapping = file.pkl_mapping
         /\ answer.opened = {"pkl"}
         /\ ~answer.parsed
    ELSE /\ answer.mapping = SourceMapping(file)
         /\ answer.parsed = file.csv_exists
         /\ ("csv" \in answer.opened) = file.csv_exists
         /\ ("pkl" \in answer.opened) = FreshPickle(file)

\* C22: load_tf_count_data returns the entry of the memory if there is one;
\* otherwise the mapping of the pickle if the pickle exists, is not older
\* than the CSV file and can be decoded; otherwise the parse of the CSV
\* file.  A pickle older than the CSV file is not opened, and the CSV file
\* is not parsed while a fresh, decodable pickle exists.
C22_ResolutionOrder ==
    [][response'.op = "load_counts"
       => ResolvedInOrder(request'.species, _tf_count_cache,
                          tf_count_files[request'.species], response')]_vars

\* A pickle exactly as old as the CSV file, holding another mapping than the
\* CSV file, was adopted.
C22_Witness ==
    /\ response.op = "load_counts" /\ request.species = "human"
    /\ response.opened = {"pkl"} /\ ~response.parsed
    /\ tf_count_files["human"].csv_exists
    /\ tf_count_files["human"].pkl_mtime = tf_count_files["human"].csv_mtime
    /\ response.mapping = tf_count_files["human"].pkl_mapping
    /\ response.mapping # ParseCountCsv(tf_count_files["human"].csv_rows)

\* The pickle is absent, older than the CSV file, or cannot be decoded.
UnusablePickle(file) == ~file.pkl_exists \/ ~FreshPickle(file) \/ ~file.pkl_ok

\* counts.get(tfbs_type, 0) of the entry of (cell_tissue, tf_name), zeros
\* without an entry.
CountIn(mapping, cell_tissue, tf_name, tfbs_type) ==
    IF << cell_tissue, tf_name >> \in DOMAIN mapping
    THEN CountsGet(mapping[<< cell_tissue, tf_name >>], tfbs_type)
    ELSE 0

\* C23: when the memory has no entry and the pickle is absent, older than
\* the CSV file or not decodable, the call does not fail, and the mapping it
\* keeps and the count it returns are those of the parse of the CSV file.
C23_MappingIndependentOfPickle ==
    [][(/\ response'.op = "count"
        /\ request'.species \notin DOMAIN _tf_count_cache
        /\ UnusablePickle(tf_count_files[request'.species]))
       => /\ request'.species \in DOMAIN _tf_count_cache'
          /\ _tf_count_cache'[request'.species]
               = SourceMapping(tf_count_files[request'.species])
          /\ response'.count
               = CountIn(SourceMapping(tf_count_files[request'.species]),
                         request'.cell_tissue, request'.tf_name,
                         request'.tfbs_type)]_vars

\* A count was answered from the parse of the CSV file while the pickle,
\* newer than the CSV file, cannot be decoded.
C23_Witness ==
    /\ response.op = "count" /\ response.parsed /\ response.count > 0
    /\ tf_count_files[request.species].pkl_exists
    /\ ~tf_count_files[request.species].pkl_ok
    /\ tf_count_files[request.species].pkl_mtime
         > tf_count_files[request.species].csv_mtime
    /\ _tf_count_cache[request.species]
         = ParseCountCsv(tf_count_files[request.species].csv_rows)

\* The pickle holds `mapping`, written after the CSV file.
PickleHolds(file, mapping) ==
    /\ file.pkl_exists /\ file.pkl_ok
    /\ file.pkl_mtime > file.csv_mtime
    /\ file.pkl_mapping = mapping

\* C24: a call that parsed the CSV file and could not write the pickle still
\* returns the parsed mapping and keeps it in memory; and while the memory
\* holds an entry, calls are answered from it whatever the pickle is like.
C24_PickleWriteFailureIsHarmless ==
    [][response'.op = "load_counts"
       => /\ (/\ response'.parsed
               /\ ~PickleHolds(tf_count_files'[request'.species], response'.mapping))
             => /\ response'.mapping
                     = ParseCountCsv(tf_count_files[request'.species].csv_rows)
                /\ request'.species \in DOMAIN _tf_count_cache'
                /\ _tf_count_cache'[request'.species] = response'.mapping
          /\ (/\ request'.species \in DOMAIN _tf_count_cache
               /\ ~tf_count_files[request'.species].pkl_ok)
             => /\ response'.mapping = _tf_count_cache[request'.species]
                /\ ~response'.parsed]_vars

\* The CSV file was parsed, no pickle exists after the call, and the parsed
\* mapping is in memory.
C24_Witness ==
    /\ response.op = "load_counts" /\ request.species = "human"
    /\ response.parsed /\ response.mapping # << >>
    /\ ~tf_count_files["human"].pkl_exists
    /\ "human" \in DOMAIN _tf_count_cache
    /\ _tf_count_cache["human"] = response.mapping

\* int(count_of_id or '0') of a row: << n >>, or << >> when it is no number.
RowCount(row) ==
    PyInt(Strip(IF row.count_of_id = << >> THEN << "0" >> ELSE row.count_of_id))

\* What a row adds to the confirmed count of (tissue, name).
ChipShare(row, tissue, name) ==
    IF /\ RowCount(row) # << >> /\ row.cell_tissue = tissue /\ tissue # ""
       /\ Strip(row.TFBS) = name /\ name # << >>
    THEN RowCount(row)[1] ELSE 0

\* What a row adds to the predicted count of (tissue, name).
PredictedShare(row, tissue, name) ==
    IF /\ RowCount(row) # << >> /\ row.cell_tissue = tissue /\ tissue # ""
       /\ Strip(row.predicted_TFBS) = name /\ name # << >>
    THEN RowCount(row)[1] ELSE 0

RECURSIVE ChipTotal(_, _, _)
ChipTotal(rows, tissue, name) ==
    IF Len(rows) = 0 THEN 0
    ELSE ChipShare(rows[1], tissue, name) + ChipTotal(Tail0(rows), tissue, name)

RECURSIVE PredictedTotal(_, _, _)
PredictedTotal(rows, tissue, name) ==
    IF Len(rows) = 0 THEN 0
    ELSE PredictedShare(rows[1], tissue, name)
         + PredictedTotal(Tail0(rows), tissue, name)

\* The entry of every key is the sum of the shares of the rows.
SumsOfRows(mapping, rows) ==
    \A key \in DOMAIN mapping :
        /\ mapping[key].chip = ChipTotal(rows, key[1], key[2])
        /\ mapping[key].predicted = PredictedTotal(rows, key[1], key[2])

\* C25: in every entry of a count mapping, all = chip + predicted; and in a
\* mapping parsed from the CSV file, chip is the sum of the counts of the
\* rows with that confirmed name and predicted the sum of the counts of the
\* rows with that predicted name, so that a row with both names counts for
\* both, and twice in all when the two names are the same.
C25_AllIsChipPlusPredicted ==
    /\ \A species \in DOMAIN _tf_count_cache :
          \A key \in DOMAIN _tf_count_cache[species] :
              _tf_count_cache[species][key].all
                = _tf_count_cache[species][key].chip
                  + _tf_count_cache[species][key].predicted
    /\ (response.op = "count" /\ response.parsed)
       => SumsOfRows(_tf_count_cache[request.species],
                     tf_count_files[request.species].csv_rows)

\* The CSV file was parsed and a row with the same confirmed and predicted
\* name stands twice in the total of that name.
C25_Witness ==
    /\ response.op = "count" /\ response.parsed
    /\ \E i \in DOMAIN tf_count_files[request.species].csv_rows :
          LET row == tf_count_files[request.species].csv_rows[i]
          IN /\ row.TFBS = TermX /\ row.predicted_TFBS = TermX
             /\ row.cell_tissue = "T"
    /\ Len(tf_count_files[request.species].csv_rows) = 1
    /\ _tf_count_cache[request.species][<< "T", TermX >>]
         = [all |-> 2, chip |-> 1, predicted |-> 1]

(***************************************************************************)
(* Single name queries.                                                    *)
(***************************************************************************)
\* The evidence filters with a meaning of their own.
EvidenceFilters == {"", "all", "chip", "predicted"}

\* A name row carries the term as the request's evidence filter asks.
CarriesTerm(n, term, tfbs_type) ==
    /\ tfbs_type \in {"", "all", "chip"} /\ n.TFBS # NULL /\ n.TFBS = term
    \/ /\ tfbs_type \in {"", "all", "predicted"}
       /\ n.predicted_TFBS # NULL /\ n.predicted_TFBS = term

\* The indexes of the position records a name request matches.
NameMatching(req) ==
    { i \in DOMAIN TFBS_position :
        /\ \E k \in DOMAIN TFBS_name :
              /\ TFBS_name[k].ID = TFBS_position[i].ID
              /\ CarriesTerm(TFBS_name[k], req.query, req.tfbs_type)
        /\ req.cell_line # ""
             => TFBS_position[i].ID \in TissueIds(req.species, req.cell_line) }

\* The count of the count file for the request's tissue and term.
TissueCount(req, rows) ==
    (IF req.tfbs_type = "predicted" THEN 0
     ELSE ChipTotal(rows, req.cell_line, req.query))
    + (IF req.tfbs_type = "chip" THEN 0
       ELSE PredictedTotal(rows, req.cell_line, req.query))

\* The count of the store's aggregate row of the term, 0 without a row.
AggregateOf(req) ==
    IF \A k \in DOMAIN tfbs_name_counts : tfbs_name_counts[k].tfbs # req.query
    THEN 0
    ELSE LET k == CHOOSE j \in DOMAIN tfbs_name_counts :
                     /\ tfbs_name_counts[j].tfbs = req.query
                     /\ \A m \in 1..(j - 1) : tfbs_name_counts[m].tfbs # req.query
         IN CASE req.tfbs_type = "chip" -> tfbs_name_counts[k].tfbs_count
              [] req.tfbs_type = "predicted" ->
                    tfbs_name_counts[k].predicted_tfbs_count
              [] OTHER -> tfbs_name_counts[k].all_count

\* C26: for a single name query the total is the count of the count file
\* for (tissue, term) under the evidence filter when a tissue is given, and
\* otherwise that of the store's aggregate row of the term, 0 without a row;
\* the rows fetched are position records with a name row that carries the
\* term as the filter asks, inside the allow-list when a tissue is given,
\* every record once, as many as the window holds.
C26_NameCountAndRows ==
    (response.op \in SingleOps /\ response.kind = "name"
       /\ response.status = "ok"
       /\ request.tfbs_type \in EvidenceFilters
       /\ TissueHasIds(request))
    => /\ response.count
            = (IF request.cell_line # ""
               THEN TissueCount(request, tf_count_files[request.species].csv_rows)
               ELSE AggregateOf(request))
       /\ \A k \in DOMAIN response.raw :
             \E i \in NameMatching(request) : response.raw[k] = TFBS_position[i]
       /\ \A k, m \in DOMAIN response.raw :
             k # m => response.raw[k].ID # response.raw[m].ID
       /\ Len(response.raw)
            = (IF request.op = "list"
               THEN Min(request.length,
                        Max(0, Cardinality(NameMatching(request)) - request.start))
               ELSE Cardinality(NameMatching(request)))

\* The sites of X were downloaded for the tissue T: the count file counts 3
\* (2 confirmed, 1 predicted), and the rows are records of the allow-list
\* only while the store holds another record named X.
C26_Witness ==
    /\ response.op = "download" /\ response.kind = "name"
    /\ response.status = "ok"
    /\ request.query = TermX /\ request.tfbs_type = ""
    /\ request.cell_line = "T"
    /\ response.count = 3
    /\ Len(response.raw) >= 1
    /\ Cardinality(NameMatching([request EXCEPT !.cell_line = ""]))
         > Len(response.raw)

\* C27: when the per-tissue file of the request's tissue exists but cannot
\* be read, or holds no row that can be used, the search does not fail: the
\* tissue gets an empty entry in the cache and the answer is that of a
\* tissue without data, no rows and total 0.
C27_UselessSourceGivesEmptyEntry ==
    (/\ request.op \in SingleOps
     /\ request.query # << >>
     /\ ClassifyQuery(request.query).raised = ""
     /\ request.cell_line # ""
     /\ cell_line_files[<< request.species, request.cell_line >>].exists
     /\ TissueIds(request.species, request.cell_line) = {})
    => /\ response.status = "ok"
       /\ response.data = << >>
       /\ response.count = 0
       /\ << request.species, request.cell_line >> \in DOMAIN _cell_line_ids_cache
       /\ _cell_line_ids_cache[<< request.species, request.cell_line >>] = << >>

\* The evidence filter the row statement applies for a value of tfbs_type:
\* every value but chip and predicted selects by either name.
RowFilter(tfbs_type) ==
    IF tfbs_type \in {"chip", "predicted"} THEN tfbs_type ELSE "all"

\* The request with its evidence filter as the row statement reads it.
AsSelected(req) == [req EXCEPT !.tfbs_type = RowFilter(req.tfbs_type)]

\* C28: whatever the value of tfbs_type, a single name search counts under
\* the evidence filter under which it selects its rows, with and without a
\* tissue: a value that selects by either name is counted as all.
C28_CountFollowsRowFilter ==
    (response.op \in SingleOps /\ response.kind = "name"
       /\ response.status = "ok" /\ TissueHasIds(request))
    => /\ \A k \in DOMAIN response.raw :
             \E i \in NameMatching(AsSelected(request)) :
                 response.raw[k] = TFBS_position[i]
       /\ response.count
            = (IF request.cell_line # ""
               THEN TissueCount(AsSelected(request),
                                tf_count_files[request.species].csv_rows)
               ELSE AggregateOf(AsSelected(request)))

(***************************************************************************)
(* The session.                                                            *)
(***************************************************************************)
\* C29: an upload that is turned away (no file, too large, unreadable, no
\* query, more than 1000 queries) leaves the stored batch content as it was,
\* and so do the batch requests; a batch request that succeeds answers with
\* the total and the rows of the content that was stored before it, which
\* after an accepted upload A and a rejected upload B is the content of A.
C29_RejectedUploadKeepsSession ==
    [][/\ (request'.op = "upload" /\ ~response'.accepted) => session' = session
       /\ request'.op \in BatchOps
            => /\ session' = session
               /\ response'.kind = "batch" <=> session # << >>
               /\ (response'.status = "ok" /\ session # << >>)
                    => \E f \in ScanOrders(Len(TFBS_position)) :
                          /\ response'.count
                               = BatchAnswerFor(request', parse_batch_file(session),
                                                f).count
                          /\ response'.raw
                               = BatchAnswerFor(request', parse_batch_file(session),
                                                f).raw]_vars

\* A file without a query was turned away while the batch of an earlier
\* upload was stored.
C29_Witness ==
    /\ request.op = "upload" /\ ~response.accepted
    /\ response.message = "No valid search terms"
    /\ session = JoinLines(<< TermX, RegionQuery(Chr1, 1, 3) >>)

\* C30: whenever the session holds batch content, that content parses to at
\* least 1 and at most 1000 queries; so a batch list or batch download
\* request that runs a batch runs one of 1 to 1000 queries, never one of
\* zero or of more than 1000.
C30_SessionHoldsOneToThousandQueries ==
    /\ session # << >> => Len(parse_batch_file(session)) \in 1..1000
    /\ (response.op \in BatchOps /\ response.kind = "batch")
         => /\ session # << >>
            /\ Len(parse_batch_file(session)) >= 1
            /\ Len(parse_batch_file(session)) <= 1000

\* A batch list request ran the batch of a file of exactly 1000 queries.
C30_Witness ==
    /\ response.op = "batch_list" /\ response.kind = "batch"
    /\ response.status = "ok"
    /\ Len(parse_batch_file(session)) = 1000

====
